---- MODULE Spec2Model ----
(***************************************************************************)
(* brewsync core: the Brewfile parser and writer (internal/brewfile), the  *)
(* diff engine and its key filters.                                        *)
(*                                                                         *)
(* A Go string is a sequence of one-character strings, so that formatting  *)
(* and parsing are computed character by character as the code does.       *)
(***************************************************************************)
EXTENDS Integers, Sequences, FiniteSets, TLC

VARIABLES
    \* diff engine
    source,       \* Packages handed to Diff as source
    current,      \* Packages handed to Diff as current
    types,        \* the category list of the last DiffByType call
    diff,         \* the DiffResult held by the caller
    base,         \* the DiffResult the first call returned
    prev,         \* the receiver DiffResult of the last call
    keys,         \* the key sets handed to the filter calls, in call order
    ops,          \* the diff-engine calls made, in call order
    \* writer and parser
    wpkgs,        \* Writer.packages
    content,      \* the text being parsed
    mode,         \* "string" (ParseString) or "file" (ParseFile)
    fstate,       \* state of the file ParseFile is given
    rest,         \* input the bufio.Scanner has not delivered yet
    lastComment,  \* Parser: pending description
    packages,     \* Parser: records appended so far
    trail,        \* the lines the scanner has delivered, in order
    err,          \* error returned by the parse call
    pc,           \* position of the writer/parser run
    \* ignore file
    ifile,        \* ignore.yaml on disk
    cfg,          \* the package-level cfg of config.Load
    calls,        \* per caller: the mutator call it is in
    last,         \* the mutator call that returned last
    answer,       \* the last IsCategoryIgnored / IsPackageIgnored call and its result
    ncalls,       \* mutator and reader calls made
    \* package options
    recv,         \* the receiver of Package.WithOption
    ret,          \* the Package the call returned
    heap,         \* the maps made so far; Options of a Package is an index, 0 for nil
    held,         \* the options the receiver had when the call was made
    out,          \* the text formatOptions returned
    opc,          \* position of the option run
    nopt,         \* WithOption calls made
    \* slices and their backing arrays
    arrays,       \* the backing arrays made so far; a slice is an index, 0 for nil
    frame,        \* the last call on slices: its arguments, the arrays before it, its result
    \* install progress
    model,        \* the progress Model the runtime holds
    cmds,         \* install commands the runtime has been given and not finished
    inbox,        \* InstallMsg values sent to the runtime, not handled yet
    run,          \* "new", "running" once Init was called, "quit" once tea.Quit was returned
    handed,       \* the packages handed to installFn, in call order
    nkeys         \* key presses made

diffVars == <<source, current, types, diff, base, prev, keys, ops>>
textVars == <<wpkgs, content, mode, fstate, rest, lastComment, packages, trail, err, pc>>
ignoreVars == <<ifile, cfg, calls, last, answer, ncalls>>
optVars == <<recv, ret, heap, held, out, opc, nopt>>
memVars == <<arrays, frame>>
installVars == <<model, cmds, inbox, run, handed, nkeys>>
vars == <<source, current, types, diff, base, prev, keys, ops,
          wpkgs, content, mode, fstate, rest, lastComment, packages, trail, err, pc,
          ifile, cfg, calls, last, answer, ncalls,
          recv, ret, heap, held, out, opc, nopt,
          arrays, frame,
          model, cmds, inbox, run, handed, nkeys>>

(***************************************************************************)
(* Bounds                                                                  *)
(***************************************************************************)
MaxPkgs == 4      \* records in source and current together
MaxLines == 3     \* lines of a parsed text
MaxSet == 2       \* records of a written package set
MaxCalls == 2     \* mutator and reader calls on the ignore file
MaxOpts == 2      \* WithOption calls of one run
MaxArr == 2       \* records of a backing array handed to a call
MaxInstall == 2   \* packages handed to the progress Model
MaxKeys == 1      \* key presses during an install run
SpinnerFrames == 2 \* frames of the spinner that are told apart

(***************************************************************************)
(* Characters and strings                                                  *)
(***************************************************************************)
\* One element standing for a run of 65536 'x' bytes without a newline.
XRun == "x*65536"

\* The bytes used, in ascending byte order.
AsciiOrder ==
    <<"\t", "\n", "\r", " ", "!", "\"", "#", "'", "(", ")", "+", ",", "-", ".", "/",
      "0", "1", "2", "3", "4", "5", "6", "7", "8", "9", ":", "F", "[", "]", "_",
      "a", "b", "c", "d", "e", "f", "g", "h", "i", "j", "k", "l", "m", "n", "o",
      "p", "q", "r", "s", "t", "u", "v", "w", "x", XRun, "y", "z">>

Ord(c) == CHOOSE i \in 1..Len(AsciiOrder) : AsciiOrder[i] = c

Digits == {"0", "1", "2", "3", "4", "5", "6", "7", "8", "9"}
Letters == {"F", "a", "b", "c", "d", "e", "f", "g", "h", "i", "j", "k", "l", "m", "n",
            "o", "p", "q", "r", "s", "t", "u", "v", "w", "x", XRun, "y", "z"}

\* len(s) in bytes
Width(s) == Len(s) + 65535 * Cardinality({i \in 1..Len(s) : s[i] = XRun})

Drop(s, n) == SubSeq(s, n + 1, Len(s))
Take(s, n) == SubSeq(s, 1, n)

HasPrefix(s, p) == Len(s) >= Len(p) /\ Take(s, Len(p)) = p
HasSuffix(s, p) == Len(s) >= Len(p) /\ Drop(s, Len(s) - Len(p)) = p
TrimPrefix(s, p) == IF HasPrefix(s, p) THEN Drop(s, Len(p)) ELSE s
TrimSuffix(s, p) == IF HasSuffix(s, p) THEN Take(s, Len(s) - Len(p)) ELSE s

SpaceChars == {" ", "\t", "\r", "\n"}
WordChars == Letters \cup Digits \cup {"_"}
QuoteChars == {"\"", "'"}

\* index of the first element of s at or after i that is in C, Len(s)+1 if none
FirstIn(s, i, C) ==
    LET hits == {j \in i..Len(s) : s[j] \in C}
    IN  IF hits = {} THEN Len(s) + 1
        ELSE CHOOSE j \in hits : \A k \in hits : j <= k

\* index of the first element of s at or after i that is not in C, Len(s)+1 if none
FirstNotIn(s, i, C) ==
    LET hits == {j \in i..Len(s) : s[j] \notin C}
    IN  IF hits = {} THEN Len(s) + 1
        ELSE CHOOSE j \in hits : \A k \in hits : j <= k

\* index of the last element of s that is not in C, 0 if none
LastNotIn(s, C) ==
    LET hits == {j \in 1..Len(s) : s[j] \notin C}
    IN  IF hits = {} THEN 0
        ELSE CHOOSE j \in hits : \A k \in hits : j >= k

\* strings.TrimSpace
TrimSpace(s) ==
    LET a == FirstNotIn(s, 1, SpaceChars)
        b == LastNotIn(s, SpaceChars)
    IN  IF a > Len(s) THEN <<>> ELSE SubSeq(s, a, b)

\* strings.Trim(s, `"'`)
TrimQuotes(s) ==
    LET a == FirstNotIn(s, 1, QuoteChars)
        b == LastNotIn(s, QuoteChars)
    IN  IF a > Len(s) THEN <<>> ELSE SubSeq(s, a, b)

\* a < b on Go strings (bytewise)
RECURSIVE StrLess(_, _)
StrLess(a, b) ==
    IF b = <<>> THEN FALSE
    ELSE IF a = <<>> THEN TRUE
    ELSE IF Head(a) = Head(b) THEN StrLess(Tail(a), Tail(b))
    ELSE Ord(Head(a)) < Ord(Head(b))

\* strings.Join
RECURSIVE Join(_, _)
Join(ss, sep) ==
    IF ss = <<>> THEN <<>>
    ELSE IF Len(ss) = 1 THEN ss[1]
    ELSE ss[1] \o sep \o Join(Tail(ss), sep)

(***************************************************************************)
(* Package records (types.go)                                              *)
(***************************************************************************)
TypeTap == "tap"
TypeBrew == "brew"
TypeCask == "cask"
TypeMas == "mas"
TypeVSCode == "vscode"
TypeCursor == "cursor"
TypeAntigravity == "antigravity"
TypeGo == "go"

\* string(pkg.Type)
TypeStr(t) ==
    CASE t = TypeTap -> <<"t", "a", "p">>
      [] t = TypeBrew -> <<"b", "r", "e", "w">>
      [] t = TypeCask -> <<"c", "a", "s", "k">>
      [] t = TypeMas -> <<"m", "a", "s">>
      [] t = TypeVSCode -> <<"v", "s", "c", "o", "d", "e">>
      [] t = TypeCursor -> <<"c", "u", "r", "s", "o", "r">>
      [] t = TypeAntigravity -> <<"a", "n", "t", "i", "g", "r", "a", "v", "i", "t", "y">>
      [] t = TypeGo -> <<"g", "o">>

NoOptions == {}

\* Options is the map as its set of <<key, value>> pairs; a nil map is the empty one.
Package(t, name, full, opts, desc) ==
    [Type |-> t, Name |-> name, FullName |-> full, Options |-> opts, Description |-> desc]

NewPackage(t, name) == Package(t, name, <<>>, NoOptions, <<>>)

\* Packages.Filter
RECURSIVE FilterTypes(_, _)
FilterTypes(ps, typeSet) ==
    IF ps = <<>> THEN <<>>
    ELSE IF Head(ps).Type \in typeSet THEN <<Head(ps)>> \o FilterTypes(Tail(ps), typeSet)
    ELSE FilterTypes(Tail(ps), typeSet)

Range(s) == {s[i] : i \in DOMAIN s}

Filter(ps, ts) ==
    IF Len(ts) = 0 THEN ps ELSE FilterTypes(ps, Range(ts))

(***************************************************************************)
(* Diff engine (diff.go)                                                   *)
(***************************************************************************)
packageKey_NameOnly(pkg) == pkg.Name

packageKey(pkg) == TypeStr(pkg.Type) \o <<":">> \o pkg.Name

\* the key set of a map built by inserting the records of ps under packageKey
MapKeys(ps) == {packageKey(ps[i]) : i \in DOMAIN ps}

RECURSIVE Absent(_, _)
Absent(ps, keySet) ==
    IF ps = <<>> THEN <<>>
    ELSE IF packageKey(Head(ps)) \notin keySet THEN <<Head(ps)>> \o Absent(Tail(ps), keySet)
    ELSE Absent(Tail(ps), keySet)

RECURSIVE Present(_, _)
Present(ps, keySet) ==
    IF ps = <<>> THEN <<>>
    ELSE IF packageKey(Head(ps)) \in keySet THEN <<Head(ps)>> \o Present(Tail(ps), keySet)
    ELSE Present(Tail(ps), keySet)

Diff_NoElse(src, cur) ==
    [Additions |-> Absent(src, MapKeys(cur)),
     Removals |-> Absent(cur, MapKeys(src)),
     Common |-> src]

Diff_NoRemovalCheck(src, cur) ==
    [Additions |-> Absent(src, MapKeys(cur)),
     Removals |-> cur,
     Common |-> Present(src, MapKeys(cur))]

Diff_CurrentCopy(src, cur) ==
    [Additions |-> Absent(src, MapKeys(cur)),
     Removals |-> Absent(cur, MapKeys(src)),
     Common |-> Present(cur, MapKeys(src))]

Diff(src, cur) ==
    [Additions |-> Absent(src, MapKeys(cur)),
     Removals |-> Absent(cur, MapKeys(src)),
     Common |-> Present(src, MapKeys(cur))]

DiffByType_UnfilteredCurrent(src, cur, ts) == Diff(Filter(src, ts), cur)

DiffByType(src, cur, ts) == Diff(Filter(src, ts), Filter(cur, ts))

IsEmpty_CountsCommon(d) ==
    Len(d.Additions) = 0 /\ Len(d.Removals) = 0 /\ Len(d.Common) = 0

IsEmpty(d) == Len(d.Additions) = 0 /\ Len(d.Removals) = 0

filterByKey(pkgs, excluded) == Absent(pkgs, excluded)

FilterIgnored_AlsoCommon(d, ignoredPackages) ==
    [Additions |-> filterByKey(d.Additions, ignoredPackages),
     Removals |-> filterByKey(d.Removals, ignoredPackages),
     Common |-> filterByKey(d.Common, ignoredPackages)]

FilterIgnored_ToCommon(d, ignoredPackages) ==
    [Additions |-> filterByKey(d.Additions, ignoredPackages),
     Removals |-> filterByKey(d.Removals, ignoredPackages),
     Common |-> d.Common \o Present(d.Additions, ignoredPackages)]

FilterIgnored(d, ignoredPackages) ==
    [Additions |-> filterByKey(d.Additions, ignoredPackages),
     Removals |-> filterByKey(d.Removals, ignoredPackages),
     Common |-> d.Common]

FilterMachineSpecific(d, machinePackages) ==
    [Additions |-> filterByKey(d.Additions, machinePackages),
     Removals |-> filterByKey(d.Removals, machinePackages),
     Common |-> d.Common]

(***************************************************************************)
(* Parser (parser.go)                                                      *)
(***************************************************************************)
\* bufio.MaxScanTokenSize, the buffer limit of the bufio.Scanner the parser
\* builds with bufio.NewScanner
MaxScanTokenSize == 64 * 1024

\* bufio.ScanLines on the undelivered input: the next line without its line
\* end, and the input left after it
dropCR(s) == IF s # <<>> /\ s[Len(s)] = "\r" THEN Take(s, Len(s) - 1) ELSE s
NextLine(input) ==
    LET nl == FirstIn(input, 1, {"\n"})
    IN  [raw |-> Take(input, nl - 1),
         text |-> dropCR(Take(input, nl - 1)),
         rest |-> Drop(input, nl)]

\* the token does not fit the scanner's buffer: Scan() stops with ErrTooLong
TooLong(input) == Width(NextLine(input).raw) >= MaxScanTokenSize

PutOption(opts, k, v) == {pr \in opts : pr[1] # k} \cup {<<k, v>>}

\* parseValueAsString
parseValueAsString(value) == TrimQuotes(value)

\* parseOptions: the matches of optionPattern, (\w+):\s*(.+?)(?:,\s*|$), from
\* position i on, left to right, each stored under its key
RECURSIVE parseOptionsFrom(_, _, _)
parseOptionsFrom(s, i, opts) ==
    LET k0 == FirstIn(s, i, WordChars)
        c == FirstNotIn(s, k0, WordChars)
    IN  IF k0 > Len(s) THEN opts
        ELSE IF ~(c < Len(s) /\ s[c] = ":") THEN parseOptionsFrom(s, c, opts)
        ELSE
            LET p == FirstNotIn(s, c + 1, SpaceChars)
                vstart == IF p > Len(s) THEN Len(s) ELSE p
                vend == FirstIn(s, vstart + 1, {","}) - 1
                next == FirstNotIn(s, vend + 2, SpaceChars)
                key == SubSeq(s, k0, c - 1)
                value == TrimSuffix(TrimSpace(SubSeq(s, vstart, vend)), <<",">>)
            IN  parseOptionsFrom(s, next, PutOption(opts, key, parseValueAsString(value)))

parseOptions(optStr, pkg) ==
    [pkg EXCEPT !.Options = parseOptionsFrom(optStr, 1, pkg.Options)]

\* one of the patterns ^kw\s+"([^"]+)"(?:\s*,\s*(.+))? : whether the line
\* matches, submatch 1 and submatch 2 (empty when the group did not take part)
MatchDecl(line, kw) ==
    LET n == Len(kw)
        q1 == FirstNotIn(line, n + 1, SpaceChars)
        q2 == FirstIn(line, q1 + 1, {"\""})
        ok == /\ HasPrefix(line, kw)
              /\ q1 > n + 1 /\ q1 <= Len(line) /\ line[q1] = "\""
              /\ q2 <= Len(line) /\ q2 > q1 + 1
        c == FirstNotIn(line, q2 + 1, SpaceChars)
        afterComma == Drop(line, c)
        stripped == Drop(line, FirstNotIn(line, c + 1, SpaceChars) - 1)
        grp == IF ~(c <= Len(line) /\ line[c] = ",") THEN <<>>
               ELSE IF stripped # <<>> THEN stripped
               ELSE IF afterComma # <<>> THEN <<afterComma[Len(afterComma)]>>
               ELSE <<>>
    IN  IF ok THEN [ok |-> TRUE, name |-> SubSeq(line, q1 + 1, q2 - 1), opts |-> grp]
        ELSE [ok |-> FALSE, name |-> <<>>, opts |-> <<>>]

\* the categories whose pattern has the options group, and those without
WithOptions == <<TypeTap, TypeBrew, TypeCask, TypeMas>>
WithoutOptions == <<TypeVSCode, TypeCursor, TypeAntigravity, TypeGo>>
PatternOrder == WithOptions \o WithoutOptions

\* parseLine: the patterns are tried in order, the first match wins
RECURSIVE parseLineFrom(_, _)
parseLineFrom(line, i) ==
    IF i > Len(PatternOrder) THEN [ok |-> FALSE, pkg |-> NewPackage("", <<>>)]
    ELSE
        LET t == PatternOrder[i]
            m == MatchDecl(line, TypeStr(t))
            pkg == NewPackage(t, m.name)
        IN  IF ~m.ok THEN parseLineFrom(line, i + 1)
            ELSE IF i <= Len(WithOptions) /\ m.opts # <<>>
                 THEN [ok |-> TRUE, pkg |-> parseOptions(m.opts, pkg)]
            ELSE [ok |-> TRUE, pkg |-> pkg]

parseLine(line) == parseLineFrom(line, 1)

(***************************************************************************)
(* Writer (writer.go)                                                      *)
(***************************************************************************)
typeOrder ==
    <<TypeTap, TypeBrew, TypeCask, TypeMas, TypeVSCode, TypeCursor, TypeAntigravity, TypeGo>>

\* fmt.Sscanf(v, "%d", new(int)) returns no error: leading spaces, an
\* optional sign, then at least one decimal digit (values here fit an int)
ScansInt(v) ==
    LET a == FirstNotIn(v, 1, SpaceChars)
        d == IF a <= Len(v) /\ v[a] \in {"+", "-"} THEN a + 1 ELSE a
    IN  d <= Len(v) /\ v[d] \in Digits

\* the strings of a set of distinct strings in ascending order (sort.Strings)
RECURSIVE SortStrings(_)
SortStrings(S) ==
    IF S = {} THEN <<>>
    ELSE LET m == CHOOSE x \in S : \A y \in S \ {x} : StrLess(x, y)
         IN  <<m>> \o SortStrings(S \ {m})

formatOption(k, v) ==
    IF v = <<"t", "r", "u", "e">> \/ v = <<"f", "a", "l", "s", "e">> THEN k \o <<":", " ">> \o v
    ELSE IF HasPrefix(v, <<":">>) THEN k \o <<":", " ">> \o v
    ELSE IF ScansInt(v) THEN k \o <<":", " ">> \o v
    ELSE k \o <<":", " ", "\"">> \o v \o <<"\"">>

formatOptions(opts) ==
    Join(SortStrings({formatOption(pr[1], pr[2]) : pr \in opts}), <<",", " ">>)

Quoted(s) == <<"\"">> \o s \o <<"\"">>

OptionValue(opts, k) == (CHOOSE pr \in opts : pr[1] = k)[2]
HasOption(opts, k) == \E pr \in opts : pr[1] = k

formatPackage(p) ==
    CASE p.Type = TypeTap -> TypeStr(TypeTap) \o <<" ">> \o Quoted(p.Name)
      [] p.Type \in {TypeBrew, TypeCask} ->
            IF Cardinality(p.Options) > 0
            THEN TypeStr(p.Type) \o <<" ">> \o Quoted(p.Name) \o <<",", " ">>
                 \o formatOptions(p.Options)
            ELSE TypeStr(p.Type) \o <<" ">> \o Quoted(p.Name)
      [] p.Type = TypeMas ->
            IF HasOption(p.Options, <<"i", "d">>)
            THEN TypeStr(TypeMas) \o <<" ">>
                 \o Quoted(IF p.FullName = <<>> THEN p.Name ELSE p.FullName)
                 \o <<",", " ", "i", "d", ":", " ">> \o OptionValue(p.Options, <<"i", "d">>)
            ELSE TypeStr(TypeMas) \o <<" ">> \o Quoted(p.Name)
      [] p.Type \in {TypeVSCode, TypeCursor, TypeAntigravity, TypeGo} ->
            TypeStr(p.Type) \o <<" ">> \o Quoted(p.Name)

\* sort.Slice(pkgs, by Name): slices this short are insertion-sorted
RECURSIVE insertByName(_, _)
insertByName(sorted, p) ==
    IF sorted = <<>> THEN <<p>>
    ELSE IF StrLess(p.Name, sorted[Len(sorted)].Name)
         THEN insertByName(Take(sorted, Len(sorted) - 1), p) \o <<sorted[Len(sorted)]>>
    ELSE sorted \o <<p>>

sortByName_InputOrder(ps) == ps

RECURSIVE sortByName(_)
sortByName(ps) ==
    IF ps = <<>> THEN <<>>
    ELSE insertByName(sortByName(Take(ps, Len(ps) - 1)), ps[Len(ps)])

\* Packages.ByType, one group
ByType(ps, t) == FilterTypes(ps, {t})

ExtensionHeader(t) ==
    <<"\n", "#", " ">> \o TypeStr(t)
    \o <<" ", "(", "b", "r", "e", "w", "s", "y", "n", "c", " ",
         "e", "x", "t", "e", "n", "s", "i", "o", "n", ")", "\n">>

RECURSIVE formatGroup(_)
formatGroup(pkgs) ==
    IF pkgs = <<>> THEN <<>>
    ELSE (IF pkgs[1].Description # <<>>
          THEN <<"#", " ">> \o pkgs[1].Description \o <<"\n">> ELSE <<>>)
         \o formatPackage(pkgs[1]) \o <<"\n">>
         \o formatGroup(Tail(pkgs))

RECURSIVE FormatFrom(_, _, _)
FormatFrom(ps, i, sb) ==
    IF i > Len(typeOrder) THEN sb
    ELSE
        LET t == typeOrder[i]
            pkgs == sortByName(ByType(ps, t))
            lead == IF t \in {TypeCursor, TypeAntigravity, TypeGo} THEN ExtensionHeader(t)
                    ELSE IF Len(sb) > 0 THEN <<"\n">>
                    ELSE <<>>
        IN  IF pkgs = <<>> THEN FormatFrom(ps, i + 1, sb)
            ELSE FormatFrom(ps, i + 1, sb \o lead \o formatGroup(pkgs))

\* Writer.Format
Format(ps) == FormatFrom(ps, 1, <<>>)

(***************************************************************************)
(* The same calls on slices and backing arrays.  A Packages value is a     *)
(* slice: here the index of its backing array in arrays, 0 for a nil       *)
(* slice.  The code appends only to slices it made itself, so a slice      *)
(* always covers its whole array.                                          *)
(***************************************************************************)
Deref(h, s) == IF s = 0 THEN <<>> ELSE h[s]

\* Packages.Filter: the receiver itself without types, else the records
\* appended to a nil slice
FilterMem(h, ps, ts) ==
    IF Len(ts) = 0 THEN [arrays |-> h, slice |-> ps]
    ELSE LET kept == FilterTypes(Deref(h, ps), Range(ts))
         IN  IF kept = <<>> THEN [arrays |-> h, slice |-> 0]
             ELSE [arrays |-> Append(h, kept), slice |-> Len(h) + 1]

\* Diff: three slices made with make(Packages, 0), filled by append
DiffMem(h, src, cur) ==
    LET d == Diff(Deref(h, src), Deref(h, cur))
    IN  [arrays |-> h \o <<d.Additions, d.Removals, d.Common>>,
         d |-> [Additions |-> Len(h) + 1, Removals |-> Len(h) + 2, Common |-> Len(h) + 3]]

DiffByTypeMem(h, src, cur, ts) ==
    LET filteredSource == FilterMem(h, src, ts)
        filteredCurrent == FilterMem(filteredSource.arrays, cur, ts)
    IN  DiffMem(filteredCurrent.arrays, filteredSource.slice, filteredCurrent.slice)

\* filterByKey: the records kept are appended to a nil slice
filterByKeyMem(h, pkgs, excluded) ==
    LET kept == filterByKey(Deref(h, pkgs), excluded)
    IN  IF kept = <<>> THEN [arrays |-> h, slice |-> 0]
        ELSE [arrays |-> Append(h, kept), slice |-> Len(h) + 1]

\* FilterIgnored: Common of the result is the receiver's Common slice
FilterIgnoredMem(h, d, ignoredPackages) ==
    LET a == filterByKeyMem(h, d.Additions, ignoredPackages)
        r == filterByKeyMem(a.arrays, d.Removals, ignoredPackages)
    IN  [arrays |-> r.arrays,
         d |-> [Additions |-> a.slice, Removals |-> r.slice, Common |-> d.Common]]

FilterMachineSpecificMem(h, d, machinePackages) ==
    LET a == filterByKeyMem(h, d.Additions, machinePackages)
        r == filterByKeyMem(a.arrays, d.Removals, machinePackages)
    IN  [arrays |-> r.arrays,
         d |-> [Additions |-> a.slice, Removals |-> r.slice, Common |-> d.Common]]

\* sort.Slice(pkgs, ...): the backing array of pkgs is reordered in place
SortSlice(h, pkgs) == IF pkgs = 0 THEN h ELSE [h EXCEPT ![pkgs] = sortByName(@)]

\* Format from typeOrder[i] on: byType[t] is a slice ByType filled by append,
\* and that slice is the one sorted
RECURSIVE SortGroups(_, _, _)
SortGroups(h, ps, i) ==
    IF i > Len(typeOrder) THEN h
    ELSE IF ByType(ps, typeOrder[i]) = <<>> THEN SortGroups(h, ps, i + 1)
    ELSE SortGroups(SortSlice(Append(h, ByType(ps, typeOrder[i])), Len(h) + 1), ps, i + 1)

FormatMem_SortsPackages(h, w) ==
    [arrays |-> SortSlice(h, w), text |-> Format(Deref(h, w))]

\* Writer.Format on a Writer whose packages is the slice w
FormatMem(h, w) ==
    [arrays |-> SortGroups(h, Deref(h, w), 1), text |-> Format(Deref(h, w))]

(***************************************************************************)
(* Ignore file (config/ignore.go) and its readers (config/types.go)        *)
(*                                                                         *)
(* An IgnoreFile in memory has a Global scope and the Machines map, kept   *)
(* as its set of <<machine, scope>> pairs.  A scope has the Categories     *)
(* list and the PackageIgnoreList, one list of names per field.  A nil     *)
(* slice and an empty one are both <<>>: the code never tells them apart.  *)
(***************************************************************************)
\* PackageIgnoreList with every field empty
EmptyPackages == [t \in Range(typeOrder) |-> <<>>]

\* IgnoreConfig{Categories: []string{}, Packages: PackageIgnoreList{}}
EmptyScope == [Categories |-> <<>>, Packages |-> EmptyPackages]

\* the IgnoreFile LoadIgnoreFile returns when the file does not exist
EmptyIgnoreFile == [Global |-> EmptyScope, Machines |-> {}]

\* machineIgnore, ok := ignoreFile.Machines[machine]
HasMachine(f, m) == \E pr \in f.Machines : pr[1] = m
MachineScope(f, m) == (CHOOSE pr \in f.Machines : pr[1] = m)[2]

\* ignoreFile.Machines[machine] = machineIgnore
SetMachine(f, m, scope) ==
    [f EXCEPT !.Machines = {pr \in @ : pr[1] # m} \cup {<<m, scope>>}]

\* yaml.Marshal of a scope: categories is always written, a package list
\* only when it is not empty (omitempty)
MarshalScope(s) ==
    [categories |-> s.Categories,
     packages |-> {<<t, s.Packages[t]>> : t \in {u \in Range(typeOrder) : s.Packages[u] # <<>>}}]

\* yaml.Marshal(ignoreFile): the document written to ignore.yaml
Marshal(f) ==
    [global |-> MarshalScope(f.Global),
     machines |-> {<<pr[1], MarshalScope(pr[2])>> : pr \in f.Machines}]

\* yaml.Unmarshal of a scope: a package list the document leaves out is nil
UnmarshalScope(d) ==
    [Categories |-> d.categories,
     Packages |-> [t \in Range(typeOrder) |->
                     IF \E pr \in d.packages : pr[1] = t
                     THEN (CHOOSE pr \in d.packages : pr[1] = t)[2]
                     ELSE <<>>]]

\* yaml.Unmarshal(data, &ignoreFile), Machines made when nil
Unmarshal(doc) ==
    [Global |-> UnmarshalScope(doc.global),
     Machines |-> {<<pr[1], UnmarshalScope(pr[2])>> : pr \in doc.machines}]

\* ignore.yaml on disk: whether it exists, and the document it holds
NoFile == [exists |-> FALSE, data |-> Marshal(EmptyIgnoreFile)]

\* LoadIgnoreFile, the file readable
LoadIgnoreFile(file) ==
    IF ~file.exists THEN EmptyIgnoreFile ELSE Unmarshal(file.data)

\* SaveIgnoreFile, the file writable
SaveIgnoreFile(f) == [exists |-> TRUE, data |-> Marshal(f)]

contains_Never(slice, item) == FALSE

contains(slice, item) == \E i \in DOMAIN slice : slice[i] = item

RECURSIVE removeString_Inverted(_, _)
removeString_Inverted(slice, item) ==
    IF slice = <<>> THEN <<>>
    ELSE IF Head(slice) = item
         THEN <<Head(slice)>> \o removeString_Inverted(Tail(slice), item)
    ELSE removeString_Inverted(Tail(slice), item)

RECURSIVE removeString(_, _)
removeString(slice, item) ==
    IF slice = <<>> THEN <<>>
    ELSE IF Head(slice) # item THEN <<Head(slice)>> \o removeString(Tail(slice), item)
    ELSE removeString(Tail(slice), item)

splitPackageID_EveryColon(pkgID) ==
    LET i == FirstIn(pkgID, 1, {":"})
        tail == Drop(pkgID, i)
        j == FirstIn(tail, 1, {":"})
    IN  IF i > Len(pkgID) THEN <<pkgID>>
        ELSE IF j > Len(tail) THEN <<Take(pkgID, i - 1), tail>>
        ELSE <<Take(pkgID, i - 1), Take(tail, j - 1), Drop(tail, j)>>

\* split on the first colon only
splitPackageID(pkgID) ==
    LET i == FirstIn(pkgID, 1, {":"})
    IN  IF i <= Len(pkgID) THEN <<Take(pkgID, i - 1), Drop(pkgID, i)>>
        ELSE <<pkgID>>

parsePackageID(pkgID) ==
    LET parts == splitPackageID(pkgID)
    IN  IF Len(parts) # 2
        THEN [err |-> "invalid package ID format", pkgType |-> <<>>, pkgName |-> <<>>]
        ELSE [err |-> "none", pkgType |-> parts[1], pkgName |-> parts[2]]

\* the field a pkgType names in the switch of addPackageToList and
\* removePackageFromList; no case matches any other pkgType
IsField(pkgType) == \E t \in Range(typeOrder) : TypeStr(t) = pkgType
Field(pkgType) == CHOOSE t \in Range(typeOrder) : TypeStr(t) = pkgType

addPackageToList_NoCheck(list, pkgType, pkgName) ==
    IF ~IsField(pkgType) THEN list
    ELSE [list EXCEPT ![Field(pkgType)] = Append(@, pkgName)]

addPackageToList(list, pkgType, pkgName) ==
    IF ~IsField(pkgType) THEN list
    ELSE IF contains(list[Field(pkgType)], pkgName) THEN list
    ELSE [list EXCEPT ![Field(pkgType)] = Append(@, pkgName)]

removePackageFromList(list, pkgType, pkgName) ==
    IF ~IsField(pkgType) THEN list
    ELSE [list EXCEPT ![Field(pkgType)] = removeString(@, pkgName)]

\* the machineIgnore an Add call starts from
ScopeOrNew(f, machine) ==
    IF HasMachine(f, machine) THEN MachineScope(f, machine) ELSE EmptyScope

AddCategoryIgnore_MachineFirst(f, machine, category, global) ==
    IF machine = ""
    THEN [f EXCEPT !.Global.Categories = Append(@, category)]
    ELSE SetMachine(f, machine, [ScopeOrNew(f, machine) EXCEPT !.Categories = Append(@, category)])

\* AddCategoryIgnore, between LoadIgnoreFile and SaveIgnoreFile
AddCategoryIgnore(f, machine, category, global) ==
    IF global \/ machine = ""
    THEN IF contains(f.Global.Categories, category) THEN f
         ELSE [f EXCEPT !.Global.Categories = Append(@, category)]
    ELSE LET machineIgnore == ScopeOrNew(f, machine)
         IN  IF contains(machineIgnore.Categories, category)
             THEN SetMachine(f, machine, machineIgnore)
             ELSE SetMachine(f, machine,
                             [machineIgnore EXCEPT !.Categories = Append(@, category)])

\* RemoveCategoryIgnore, between LoadIgnoreFile and SaveIgnoreFile
RemoveCategoryIgnore(f, machine, category, global) ==
    IF global \/ machine = ""
    THEN [f EXCEPT !.Global.Categories = removeString(@, category)]
    ELSE IF HasMachine(f, machine)
         THEN SetMachine(f, machine,
                         [MachineScope(f, machine) EXCEPT
                            !.Categories = removeString(@, category)])
    ELSE f

\* AddPackageIgnore, after parsePackageID and before SaveIgnoreFile
AddPackageIgnore(f, machine, pkgType, pkgName, global) ==
    IF global \/ machine = ""
    THEN [f EXCEPT !.Global.Packages = addPackageToList(@, pkgType, pkgName)]
    ELSE LET machineIgnore == ScopeOrNew(f, machine)
         IN  SetMachine(f, machine,
                        [machineIgnore EXCEPT
                           !.Packages = addPackageToList(@, pkgType, pkgName)])

\* RemovePackageIgnore, after parsePackageID and before SaveIgnoreFile
RemovePackageIgnore(f, machine, pkgType, pkgName, global) ==
    IF global \/ machine = ""
    THEN [f EXCEPT !.Global.Packages = removePackageFromList(@, pkgType, pkgName)]
    ELSE IF HasMachine(f, machine)
         THEN SetMachine(f, machine,
                         [MachineScope(f, machine) EXCEPT
                            !.Packages = removePackageFromList(@, pkgType, pkgName)])
    ELSE f

\* a mutator call: which of the four, and its arguments
Call(op, machine, arg, global) ==
    [op |-> op, machine |-> machine, arg |-> arg, global |-> global]

CategoryOps == {"AddCategoryIgnore", "RemoveCategoryIgnore"}
PackageOps == {"AddPackageIgnore", "RemovePackageIgnore"}

\* what a mutator does to the IgnoreFile it loaded: the error it returns
\* before saving, or the IgnoreFile it hands to SaveIgnoreFile
Modify(f, c) ==
    LET id == parsePackageID(c.arg)
    IN  CASE c.op = "AddCategoryIgnore" ->
               [err |-> "none", file |-> AddCategoryIgnore(f, c.machine, c.arg, c.global)]
          [] c.op = "RemoveCategoryIgnore" ->
               [err |-> "none", file |-> RemoveCategoryIgnore(f, c.machine, c.arg, c.global)]
          [] c.op = "AddPackageIgnore" ->
               IF id.err # "none" THEN [err |-> id.err, file |-> f]
               ELSE [err |-> "none",
                     file |-> AddPackageIgnore(f, c.machine, id.pkgType, id.pkgName, c.global)]
          [] c.op = "RemovePackageIgnore" ->
               IF id.err # "none" THEN [err |-> id.err, file |-> f]
               ELSE [err |-> "none",
                     file |-> RemovePackageIgnore(f, c.machine, id.pkgType, id.pkgName, c.global)]

\* addPrefix
addPrefix(pkgType, names) == [i \in DOMAIN names |-> TypeStr(pkgType) \o <<":">> \o names[i]]

\* the order in which GetIgnoredPackages appends the fields
PrefixOrder ==
    <<TypeTap, TypeBrew, TypeCask, TypeVSCode, TypeCursor, TypeAntigravity, TypeGo, TypeMas>>

RECURSIVE PrefixedFrom(_, _)
PrefixedFrom(list, i) ==
    IF i > Len(PrefixOrder) THEN <<>>
    ELSE addPrefix(PrefixOrder[i], list[PrefixOrder[i]]) \o PrefixedFrom(list, i + 1)

\* Config: c.ignoreFile is nil until LoadIgnoreFile has succeeded in Load
NilIgnoreFile == [nil |-> TRUE, val |-> EmptyIgnoreFile]
Loaded(f) == [nil |-> FALSE, val |-> f]

\* Config.GetIgnoredPackages
GetIgnoredPackages(c, machine) ==
    IF c.ignoreFile.nil THEN <<>>
    ELSE PrefixedFrom(c.ignoreFile.val.Global.Packages, 1)
         \o (IF HasMachine(c.ignoreFile.val, machine)
             THEN PrefixedFrom(MachineScope(c.ignoreFile.val, machine).Packages, 1)
             ELSE <<>>)

\* Config.IsCategoryIgnored
IsCategoryIgnored(c, machine, pkgType) ==
    IF c.ignoreFile.nil THEN FALSE
    ELSE \/ contains(c.ignoreFile.val.Global.Categories, pkgType)
         \/ /\ HasMachine(c.ignoreFile.val, machine)
            /\ contains(MachineScope(c.ignoreFile.val, machine).Categories, pkgType)

IsPackageIgnored_OrCategory(c, machine, pkgID) ==
    \/ contains(GetIgnoredPackages(c, machine), pkgID)
    \/ IsCategoryIgnored(c, machine, splitPackageID(pkgID)[1])

\* Config.IsPackageIgnored
IsPackageIgnored(c, machine, pkgID) == contains(GetIgnoredPackages(c, machine), pkgID)

(***************************************************************************)
(* Inputs of the diff engine                                               *)
(***************************************************************************)
NameA == <<"a">>
NameB == <<"b">>
DescD == <<"d">>
KeyLink == <<"l", "i", "n", "k">>
KeyId == <<"i", "d">>
ValTrue == <<"t", "r", "u", "e">>

SeqsUpTo(S, n) == UNION {[1..k -> S] : k \in 0..n}

\* brew and cask records named a or b; the records named a also come in a
\* second copy with an option and a description
DiffUniverse ==
    {NewPackage(t, n) : t \in {TypeBrew, TypeCask}, n \in {NameA, NameB}}
    \cup {Package(t, NameA, <<>>, {<<KeyLink, ValTrue>>}, DescD) : t \in {TypeBrew, TypeCask}}

TypeLists == {<<>>, <<TypeBrew>>, <<TypeCask, TypeTap>>}

KeyOf(t, n) == TypeStr(t) \o <<":">> \o n

KeySets ==
    {{},
     {KeyOf(TypeBrew, NameA)},
     {KeyOf(TypeBrew, NameA), KeyOf(TypeCask, NameB)}}

EmptyDiff == [Additions |-> <<>>, Removals |-> <<>>, Common |-> <<>>]

TextIdle ==
    /\ wpkgs = <<>> /\ content = <<>> /\ mode = "none" /\ fstate = "none"
    /\ rest = <<>> /\ lastComment = <<>> /\ packages = <<>> /\ trail = <<>>
    /\ err = "none" /\ pc = "idle"

(***************************************************************************)
(* Inputs of the ignore file                                               *)
(***************************************************************************)
Procs == {1, 2}

NoCall == Call("none", "", <<>>, FALSE)

\* no mutator call has returned yet
NoLast == [call |-> NoCall, err |-> "none", proc |-> 0]

\* a caller that is in no mutator call.  In a call: the file as it was when
\* the call loaded it, the copy the call holds, whether the call repeats the
\* call that returned last, and whether it loaded while another call held a copy
IdleCall ==
    [pc |-> "idle", call |-> NoCall, was |-> NoFile, mem |-> EmptyIgnoreFile,
     err |-> "none", again |-> FALSE, overlap |-> FALSE]

\* var cfg *Config, nil
NoConfig == [set |-> FALSE, ignoreFile |-> NilIgnoreFile]

NoAnswer ==
    [op |-> "none", machine |-> "", arg |-> <<>>, result |-> FALSE, prior |-> NoLast]

IgnoreIdle ==
    /\ ifile = NoFile /\ cfg = NoConfig /\ calls = [p \in Procs |-> IdleCall]
    /\ last = NoLast /\ answer = NoAnswer /\ ncalls = 0

(***************************************************************************)
(* Inputs of Package.WithOption                                            *)
(***************************************************************************)
\* a Package whose Options is a reference: 0 is the nil map, n the n-th map made
PackageRef(t, name, ref) ==
    [Type |-> t, Name |-> name, FullName |-> <<>>, Options |-> ref, Description |-> <<>>]

\* what the receiver held when WithOption was called, and the arguments
NoneHeld == [opts |-> {}, key |-> <<>>, value |-> <<>>]

OptIdle ==
    /\ recv = PackageRef(TypeBrew, NameA, 0) /\ ret = PackageRef(TypeBrew, NameA, 0)
    /\ heap = <<>> /\ held = NoneHeld /\ out = <<>> /\ opc = "idle" /\ nopt = 0

NoDiffRefs == [Additions |-> 0, Removals |-> 0, Common |-> 0]
NoFrame == [op |-> "none", args |-> {}, before |-> <<>>, d |-> NoDiffRefs, text |-> <<>>]

MemIdle == arrays = <<>> /\ frame = NoFrame

\* New(title, packages, installFn): the fields the install run works on, and
\* the frame of the spinner; the sizes and the progress bar are left out
New(pkgs) ==
    [packages |-> pkgs, current |-> 0, results |-> <<>>,
     installed |-> 0, failed |-> 0, done |-> FALSE, spinner |-> 0]

InstallIdle ==
    /\ model = New(<<>>) /\ cmds = {} /\ inbox = {} /\ run = "idle"
    /\ handed = <<>> /\ nkeys = 0

InitDiff ==
    /\ source \in SeqsUpTo(DiffUniverse, MaxPkgs)
    /\ current \in SeqsUpTo(DiffUniverse, MaxPkgs - Len(source))
    /\ types = <<>>
    /\ diff = EmptyDiff /\ base = EmptyDiff /\ prev = EmptyDiff
    /\ keys = <<>> /\ ops = <<>>
    /\ TextIdle /\ IgnoreIdle /\ OptIdle /\ MemIdle /\ InstallIdle

\* diff := Diff(source, current)
DoDiff ==
    /\ ops = <<>>
    /\ diff' = Diff(source, current)
    /\ base' = diff'
    /\ ops' = <<"Diff">>
    /\ UNCHANGED <<source, current, types, prev, keys>>
    /\ UNCHANGED <<textVars, ignoreVars, optVars, memVars, installVars>>

\* diff := Diff(source, source)
DoDiffSelf ==
    /\ ops = <<>>
    /\ diff' = Diff(source, source)
    /\ base' = diff'
    /\ ops' = <<"DiffSelf">>
    /\ UNCHANGED <<source, current, types, prev, keys>>
    /\ UNCHANGED <<textVars, ignoreVars, optVars, memVars, installVars>>

\* after diff := Diff(source, current): diff := Diff(current, source)
DoDiffSwapped ==
    /\ ops = <<"Diff">>
    /\ prev' = diff
    /\ diff' = Diff(current, source)
    /\ ops' = <<"Diff", "DiffSwapped">>
    /\ UNCHANGED <<source, current, types, base, keys>>
    /\ UNCHANGED <<textVars, ignoreVars, optVars, memVars, installVars>>

\* diff := DiffByType(source, current, ts)
DoDiffByType ==
    /\ ops = <<>>
    /\ \E ts \in TypeLists :
        /\ types' = ts
        /\ diff' = DiffByType(source, current, ts)
    /\ base' = diff'
    /\ ops' = <<"DiffByType">>
    /\ UNCHANGED <<source, current, prev, keys>>
    /\ UNCHANGED <<textVars, ignoreVars, optVars, memVars, installVars>>

\* diff := diff.FilterIgnored(K)
DoFilterIgnored ==
    /\ ops \in {<<"Diff">>, <<"Diff", "FilterMachineSpecific">>}
    /\ \E K \in KeySets :
        /\ keys' = Append(keys, K)
        /\ diff' = FilterIgnored(diff, K)
    /\ prev' = diff
    /\ ops' = Append(ops, "FilterIgnored")
    /\ UNCHANGED <<source, current, types, base>>
    /\ UNCHANGED <<textVars, ignoreVars, optVars, memVars, installVars>>

\* diff := diff.FilterMachineSpecific(K)
DoFilterMachineSpecific ==
    /\ ops \in {<<"Diff">>, <<"Diff", "FilterIgnored">>}
    /\ \E K \in KeySets :
        /\ keys' = Append(keys, K)
        /\ diff' = FilterMachineSpecific(diff, K)
    /\ prev' = diff
    /\ ops' = Append(ops, "FilterMachineSpecific")
    /\ UNCHANGED <<source, current, types, base>>
    /\ UNCHANGED <<textVars, ignoreVars, optVars, memVars, installVars>>

NextDiff ==
    \/ DoDiff
    \/ DoDiffSelf
    \/ DoDiffSwapped
    \/ DoDiffByType
    \/ DoFilterIgnored
    \/ DoFilterMachineSpecific

SpecDiff == InitDiff /\ [][NextDiff]_vars

DiffIdle ==
    /\ source = <<>> /\ current = <<>> /\ types = <<>>
    /\ diff = EmptyDiff /\ base = EmptyDiff /\ prev = EmptyDiff
    /\ keys = <<>> /\ ops = <<>>

(***************************************************************************)
(* Inputs of the parser and the writer                                     *)
(***************************************************************************)
BrewA == TypeStr(TypeBrew) \o <<" ", "\"", "a", "\"">>

\* the lines a parsed text is made of
LineSet ==
    {<<>>,                                                    \* blank
     <<"#", " ", "c">>,                                       \* comment "c"
     <<"#">>,                                                 \* comment without text
     BrewA,                                                   \* brew "a"
     <<" ">> \o TypeStr(TypeGo) \o <<" ", "\"", "b", "\"">>,  \* go "b", indented
     TypeStr(TypeCask) \o <<" ", "\"", "b", "\"", ",", " ">> \o KeyLink \o <<":", " ">> \o ValTrue,
     TypeStr(TypeBrew) \o <<" ", "a">>,                       \* brew a: no quotes
     <<XRun>>}                                                \* 65536 bytes

\* the text made of the given lines, each ended by a newline
RECURSIVE Text(_)
Text(lines) == IF lines = <<>> THEN <<>> ELSE lines[1] \o <<"\n">> \o Text(Tail(lines))

\* the records a package set handed to the Writer is made of
WriteUniverse ==
    {NewPackage(t, NameA) : t \in Range(typeOrder)}
    \cup {Package(t, NameB, <<>>, NoOptions, DescD) : t \in Range(typeOrder)}
    \cup {Package(TypeBrew, NameA, <<>>, {<<KeyLink, ValTrue>>}, <<>>),
          Package(TypeCask, NameB, <<>>, {<<KeyLink, ValTrue>>, <<KeyId, <<"x">>>>}, DescD),
          Package(TypeTap, NameA, <<>>, {<<KeyLink, ValTrue>>}, <<>>),
          Package(TypeMas, NameA, <<"F">>, {<<KeyId, <<"1">>>>}, <<>>),
          Package(TypeMas, NameB, <<>>, {<<KeyId, <<"1">>>>}, <<>>)}

NoDuplicateKeys(ps) ==
    \A i, j \in DOMAIN ps : i # j => packageKey(ps[i]) # packageKey(ps[j])

\* ParseString(content), or ParseFile on a file holding content
InitParse ==
    /\ \E lines \in SeqsUpTo(LineSet, MaxLines) : content = Text(lines)
    /\ \/ mode = "string" /\ fstate = "none" /\ pc = "scan"
       \/ mode = "file" /\ fstate \in {"ok", "missing", "failing"} /\ pc = "open"
    /\ rest = content
    /\ wpkgs = <<>> /\ lastComment = <<>> /\ packages = <<>> /\ trail = <<>>
    /\ err = "none"
    /\ DiffIdle /\ IgnoreIdle /\ OptIdle /\ MemIdle /\ InstallIdle

\* NewWriter(X) for a non-empty package set X, then ParseString(Format())
InitWrite ==
    /\ wpkgs \in SeqsUpTo(WriteUniverse, MaxSet)
    /\ wpkgs # <<>> /\ NoDuplicateKeys(wpkgs)
    /\ mode = "string" /\ fstate = "none" /\ pc = "format"
    /\ content = <<>> /\ rest = <<>>
    /\ lastComment = <<>> /\ packages = <<>> /\ trail = <<>>
    /\ err = "none"
    /\ DiffIdle /\ IgnoreIdle /\ OptIdle /\ MemIdle /\ InstallIdle

\* content := w.Format(), handed to ParseString
WriterFormat ==
    /\ pc = "format"
    /\ content' = Format(wpkgs)
    /\ rest' = content'
    /\ pc' = "scan"
    /\ UNCHANGED <<wpkgs, mode, fstate, lastComment, packages, trail, err>>
    /\ UNCHANGED <<diffVars, ignoreVars, optVars, memVars, installVars>>

\* ParseFile: os.Open succeeds
OpenFile ==
    /\ pc = "open" /\ fstate # "missing"
    /\ pc' = "scan"
    /\ UNCHANGED <<wpkgs, content, mode, fstate, rest, lastComment, packages, trail, err>>
    /\ UNCHANGED <<diffVars, ignoreVars, optVars, memVars, installVars>>

\* ParseFile: os.Open fails, "failed to open file"
OpenFails ==
    /\ pc = "open" /\ fstate = "missing"
    /\ err' = "open"
    /\ pc' = "done"
    /\ UNCHANGED <<wpkgs, content, mode, fstate, rest, lastComment, packages, trail>>
    /\ UNCHANGED <<diffVars, ignoreVars, optVars, memVars, installVars>>

\* ParseFile: a read of the file fails, Scan() returns false and scanner.Err()
\* is returned as "error reading file"
ReadFails ==
    /\ pc = "scan" /\ mode = "file" /\ fstate = "failing"
    /\ err' = "read"
    /\ packages' = <<>>
    /\ pc' = "done"
    /\ UNCHANGED <<wpkgs, content, mode, fstate, rest, lastComment, trail>>
    /\ UNCHANGED <<diffVars, ignoreVars, optVars, memVars, installVars>>

\* the next line does not fit the scanner's buffer: Scan() returns false;
\* ParseString returns what it has, ParseFile returns scanner.Err()
ScanTooLong ==
    /\ pc = "scan" /\ rest # <<>> /\ TooLong(rest)
    /\ IF mode = "file"
       THEN err' = "read" /\ packages' = <<>>
       ELSE UNCHANGED <<err, packages>>
    /\ pc' = "done"
    /\ UNCHANGED <<wpkgs, content, mode, fstate, rest, lastComment, trail>>
    /\ UNCHANGED <<diffVars, ignoreVars, optVars, memVars, installVars>>

\* the input is used up: Scan() returns false, the packages are returned
ScanEnd ==
    /\ pc = "scan" /\ rest = <<>> /\ fstate # "failing"
    /\ pc' = "done"
    /\ UNCHANGED <<wpkgs, content, mode, fstate, rest, lastComment, packages, trail, err>>
    /\ UNCHANGED <<diffVars, ignoreVars, optVars, memVars, installVars>>

Delivered == pc = "scan" /\ rest # <<>> /\ ~TooLong(rest)
\* line := strings.TrimSpace(scanner.Text())
Line == TrimSpace(NextLine(rest).text)
Consume ==
    /\ rest' = NextLine(rest).rest
    /\ trail' = Append(trail, NextLine(rest).text)
    /\ UNCHANGED <<wpkgs, content, mode, fstate, err, pc>>
    /\ UNCHANGED <<diffVars, ignoreVars, optVars, memVars, installVars>>

\* an empty line is skipped
LineBlank ==
    /\ Delivered /\ Line = <<>>
    /\ UNCHANGED <<lastComment, packages>>
    /\ Consume

LineComment_FileIgnores ==
    /\ Delivered /\ Line # <<>> /\ HasPrefix(Line, <<"#">>)
    /\ lastComment' = IF mode = "file" THEN lastComment
                      ELSE TrimSpace(TrimPrefix(Line, <<"#">>))
    /\ UNCHANGED packages
    /\ Consume

\* a comment becomes the pending description
LineComment ==
    /\ Delivered /\ Line # <<>> /\ HasPrefix(Line, <<"#">>)
    /\ lastComment' = TrimSpace(TrimPrefix(Line, <<"#">>))
    /\ UNCHANGED packages
    /\ Consume

LineSkipped_KeepsComment ==
    /\ Delivered /\ Line # <<>> /\ ~HasPrefix(Line, <<"#">>)
    /\ ~parseLine(Line).ok
    /\ UNCHANGED <<lastComment, packages>>
    /\ Consume

\* a line no pattern matches is skipped and resets the pending description
LineSkipped ==
    /\ Delivered /\ Line # <<>> /\ ~HasPrefix(Line, <<"#">>)
    /\ ~parseLine(Line).ok
    /\ lastComment' = <<>>
    /\ UNCHANGED packages
    /\ Consume

\* a declaration is appended, with the pending description if there is one
LineParsed ==
    /\ Delivered /\ Line # <<>> /\ ~HasPrefix(Line, <<"#">>)
    /\ parseLine(Line).ok
    /\ packages' = Append(packages,
           IF lastComment # <<>>
           THEN [parseLine(Line).pkg EXCEPT !.Description = lastComment]
           ELSE parseLine(Line).pkg)
    /\ lastComment' = <<>>
    /\ Consume

NextParse ==
    \/ OpenFile
    \/ OpenFails
    \/ ReadFails
    \/ ScanTooLong
    \/ ScanEnd
    \/ LineBlank
    \/ LineComment
    \/ LineSkipped
    \/ LineParsed

SpecParse == InitParse /\ [][NextParse]_vars

\* the writer's text holds no line that is too long or that no pattern matches
NextWrite ==
    \/ WriterFormat
    \/ ScanEnd
    \/ LineBlank
    \/ LineComment
    \/ LineParsed

SpecWrite == InitWrite /\ [][NextWrite]_vars

(***************************************************************************)
(* Ignore file: two callers of the mutators and the readers of Config      *)
(***************************************************************************)
CategoryCask == TypeStr(TypeCask)
CategoryMas == TypeStr(TypeMas)
IdCaskA == TypeStr(TypeCask) \o <<":">> \o NameA           \* "cask:a"
IdTwoColons == IdCaskA \o <<":">> \o NameB                  \* "cask:a:b"
IdNoColon == NameA                                          \* "a"
IdUnknownType == <<"p", "i", "p", ":", "a">>                \* "pip:a"

\* an ignore.yaml that names a global category and package and a scope for mini
FixtureFile ==
    [Global |-> [Categories |-> <<CategoryMas>>,
                 Packages |-> [EmptyPackages EXCEPT ![TypeCask] = <<NameB>>]],
     Machines |-> {<<"mini", [Categories |-> <<CategoryCask>>,
                              Packages |-> [EmptyPackages EXCEPT ![TypeCask] = <<NameA>>]]>>}]

InitFiles == {NoFile, SaveIgnoreFile(FixtureFile)}

\* (machine, global) as the callers give them
Targets == {<<"", TRUE>>, <<"mini", FALSE>>, <<"mini", TRUE>>}

CallUniverse ==
    {Call(op, t[1], CategoryCask, t[2]) : op \in CategoryOps, t \in Targets}
    \cup {Call(op, t[1], IdCaskA, t[2]) : op \in PackageOps, t \in Targets \ {<<"mini", TRUE>>}}
    \cup {Call("AddPackageIgnore", "", id, TRUE) : id \in {IdTwoColons, IdNoColon, IdUnknownType}}
    \cup {Call("RemovePackageIgnore", "mini", IdNoColon, FALSE)}
    \cup {Call("AddPackageIgnore", "air", IdCaskA, FALSE)}

\* the reader calls: every machine asks about the category and the package
QueryUniverse ==
    {[op |-> "IsCategoryIgnored", machine |-> m, arg |-> CategoryCask] : m \in {"mini", "air"}}
    \cup {[op |-> "IsPackageIgnored", machine |-> m, arg |-> IdCaskA] : m \in {"mini", "air"}}

InitIgnore ==
    /\ ifile \in InitFiles
    /\ cfg = NoConfig /\ calls = [p \in Procs |-> IdleCall]
    /\ last = NoLast /\ answer = NoAnswer /\ ncalls = 0
    /\ DiffIdle /\ TextIdle /\ OptIdle /\ MemIdle /\ InstallIdle

\* The callers are interchangeable: caller 1 is the one that enters when no
\* call is under way, caller 2 the one that enters while caller 1 is in a call.
MayEnter(p) ==
    /\ calls[p].pc \in {"idle", "done"}
    /\ p = 2 => calls[1].pc = "loaded"
    /\ ncalls < MaxCalls

Begin_SavesOnError(p, c) ==
    /\ MayEnter(p)
    /\ LET r == Modify(LoadIgnoreFile(ifile), c)
       IN  /\ calls' = [calls EXCEPT ![p] =
                          [pc |-> IF r.err = "none" THEN "loaded" ELSE "done",
                           call |-> c, was |-> ifile, mem |-> r.file, err |-> r.err,
                           again |-> FALSE, overlap |-> FALSE]]
           /\ last' = IF r.err = "none" THEN last ELSE [call |-> c, err |-> r.err, proc |-> p]
           /\ ifile' = IF r.err = "none" THEN ifile ELSE SaveIgnoreFile(r.file)
    /\ ncalls' = ncalls + 1
    /\ UNCHANGED <<cfg, answer>>
    /\ UNCHANGED <<diffVars, textVars, optVars, memVars, installVars>>

\* caller p enters mutator c: LoadIgnoreFile succeeds, then parsePackageID and
\* the change are made on the loaded copy; a malformed id returns here
Begin(p, c) ==
    /\ MayEnter(p)
    /\ LET f == LoadIgnoreFile(ifile)
           r == Modify(f, c)
           racing == \E q \in Procs \ {p} : calls[q].pc = "loaded"
       IN  /\ calls' = [q \in Procs |->
                          IF q = p
                          THEN [pc |-> IF r.err = "none" THEN "loaded" ELSE "done",
                                call |-> c, was |-> ifile, mem |-> r.file, err |-> r.err,
                                again |-> (last.call = c /\ last.err = "none"),
                                overlap |-> racing]
                          ELSE IF calls[q].pc = "loaded"
                               THEN [calls[q] EXCEPT !.overlap = TRUE]
                          ELSE calls[q]]
           /\ last' = IF r.err = "none" THEN last
                      ELSE [call |-> c, err |-> r.err, proc |-> p]
    /\ ncalls' = ncalls + 1
    /\ UNCHANGED <<ifile, cfg, answer>>
    /\ UNCHANGED <<diffVars, textVars, optVars, memVars, installVars>>

\* caller p enters a mutator and LoadIgnoreFile fails on the existing file:
\* "failed to read ignore file" or "failed to parse ignore file"
LoadFails(p) ==
    /\ MayEnter(p)
    /\ ifile.exists
    /\ calls' = [calls EXCEPT ![p] = [IdleCall EXCEPT !.pc = "done", !.err = "io"]]
    /\ last' = [call |-> NoCall, err |-> "io", proc |-> p]
    /\ ncalls' = ncalls + 1
    /\ UNCHANGED <<ifile, cfg, answer>>
    /\ UNCHANGED <<diffVars, textVars, optVars, memVars, installVars>>

Save_Reloads(p) ==
    /\ calls[p].pc = "loaded"
    /\ ifile' = SaveIgnoreFile(Modify(LoadIgnoreFile(ifile), calls[p].call).file)
    /\ calls' = [calls EXCEPT ![p].pc = "done"]
    /\ last' = [call |-> calls[p].call, err |-> "none", proc |-> p]
    /\ UNCHANGED <<cfg, answer, ncalls>>
    /\ UNCHANGED <<diffVars, textVars, optVars, memVars, installVars>>

\* SaveIgnoreFile of caller p succeeds: the file is replaced by the copy p holds
Save(p) ==
    /\ calls[p].pc = "loaded"
    /\ ifile' = SaveIgnoreFile(calls[p].mem)
    /\ calls' = [calls EXCEPT ![p].pc = "done"]
    /\ last' = [call |-> calls[p].call, err |-> "none", proc |-> p]
    /\ UNCHANGED <<cfg, answer, ncalls>>
    /\ UNCHANGED <<diffVars, textVars, optVars, memVars, installVars>>

\* SaveIgnoreFile of caller p fails: the directory or the file cannot be written
SaveFails(p) ==
    /\ calls[p].pc = "loaded"
    /\ calls' = [calls EXCEPT ![p] = [IdleCall EXCEPT !.pc = "done", !.err = "io"]]
    /\ last' = [call |-> NoCall, err |-> "io", proc |-> p]
    /\ UNCHANGED <<ifile, cfg, answer, ncalls>>
    /\ UNCHANGED <<diffVars, textVars, optVars, memVars, installVars>>

\* config.Get / Load with cfg nil: cfg is made and LoadIgnoreFile succeeds
Get ==
    /\ ~cfg.set
    /\ cfg' = [set |-> TRUE, ignoreFile |-> Loaded(LoadIgnoreFile(ifile))]
    /\ UNCHANGED <<ifile, calls, last, answer, ncalls>>
    /\ UNCHANGED <<diffVars, textVars, optVars, memVars, installVars>>

\* config.Get / Load with cfg nil: cfg is made, then LoadIgnoreFile fails and
\* Load returns the error; cfg stays set, its ignoreFile nil
GetFails ==
    /\ ~cfg.set
    /\ ifile.exists
    /\ cfg' = [set |-> TRUE, ignoreFile |-> NilIgnoreFile]
    /\ UNCHANGED <<ifile, calls, last, answer, ncalls>>
    /\ UNCHANGED <<diffVars, textVars, optVars, memVars, installVars>>

\* a reader call on the Config that config.Get returns
Query(q) ==
    /\ cfg.set
    /\ ncalls < MaxCalls
    /\ answer' = [op |-> q.op, machine |-> q.machine, arg |-> q.arg,
                  result |-> IF q.op = "IsCategoryIgnored"
                             THEN IsCategoryIgnored(cfg, q.machine, q.arg)
                             ELSE IsPackageIgnored(cfg, q.machine, q.arg),
                  prior |-> last]
    /\ ncalls' = ncalls + 1
    /\ UNCHANGED <<ifile, cfg, calls, last>>
    /\ UNCHANGED <<diffVars, textVars, optVars, memVars, installVars>>

NextIgnore ==
    \/ \E p \in Procs, c \in CallUniverse : Begin(p, c)
    \/ \E p \in Procs : LoadFails(p)
    \/ \E p \in Procs : Save(p)
    \/ \E p \in Procs : SaveFails(p)
    \/ Get
    \/ GetFails
    \/ \E q \in QueryUniverse : Query(q)

SpecIgnore == InitIgnore /\ [][NextIgnore]_vars

(***************************************************************************)
(* Package.WithOption, and formatOptions on the Package it returns         *)
(***************************************************************************)
OptionKeys == {<<"a">>, <<"a", "1">>}
OptionValues ==
    {ValTrue, <<"x">>, <<"1", "2">>, <<"-", "5">>, <<"3", "a">>, <<":", "s">>}

\* the map a Package refers to, as its set of <<key, value>> pairs
OptionsOf(h, p) == IF p.Options = 0 THEN {} ELSE h[p.Options]

\* pkg := NewPackage(TypeBrew, "a")
InitOption ==
    /\ recv = PackageRef(TypeBrew, NameA, 0) /\ ret = PackageRef(TypeBrew, NameA, 0)
    /\ heap = <<>> /\ held = NoneHeld /\ out = <<>> /\ opc = "ready" /\ nopt = 0
    /\ DiffIdle /\ TextIdle /\ IgnoreIdle /\ MemIdle /\ InstallIdle

\* ret := recv.WithOption(key, value).  The receiver is passed by value, its
\* Options being a reference: a nil map is replaced in the copy by a new map,
\* any other map is written through the reference the receiver also holds.
WithOption(key, value) ==
    /\ opc = "ready"
    /\ nopt < MaxOpts
    /\ held' = [opts |-> OptionsOf(heap, recv), key |-> key, value |-> value]
    /\ IF recv.Options = 0
       THEN /\ heap' = Append(heap, {<<key, value>>})
            /\ ret' = [recv EXCEPT !.Options = Len(heap) + 1]
       ELSE /\ heap' = [heap EXCEPT ![recv.Options] = PutOption(@, key, value)]
            /\ ret' = recv
    /\ opc' = "called"
    /\ nopt' = nopt + 1
    /\ UNCHANGED <<recv, out>>
    /\ UNCHANGED <<diffVars, textVars, ignoreVars, memVars, installVars>>

\* the next call is made on the Package returned: p.WithOption(..).WithOption(..)
Chain ==
    /\ opc = "called"
    /\ recv' = ret
    /\ opc' = "ready"
    /\ UNCHANGED <<ret, heap, held, out, nopt>>
    /\ UNCHANGED <<diffVars, textVars, ignoreVars, memVars, installVars>>

\* the next call is made on the same receiver again
Again ==
    /\ opc = "called"
    /\ opc' = "ready"
    /\ UNCHANGED <<recv, ret, heap, held, out, nopt>>
    /\ UNCHANGED <<diffVars, textVars, ignoreVars, memVars, installVars>>

\* formatPackage on the returned brew Package: formatOptions(p.Options)
FormatOptions ==
    /\ opc = "called"
    /\ out' = formatOptions(OptionsOf(heap, ret))
    /\ opc' = "formatted"
    /\ UNCHANGED <<recv, ret, heap, held, nopt>>
    /\ UNCHANGED <<diffVars, textVars, ignoreVars, memVars, installVars>>

NextOption ==
    \/ \E key \in OptionKeys, value \in OptionValues : WithOption(key, value)
    \/ Chain
    \/ Again
    \/ FormatOptions

SpecOption == InitOption /\ [][NextOption]_vars

(***************************************************************************)
(* Calls of the diff engine and the Writer on slices                       *)
(***************************************************************************)
FrameUniverse ==
    {NewPackage(TypeBrew, NameB), NewPackage(TypeBrew, NameA), NewPackage(TypeCask, NameA),
     Package(TypeBrew, NameA, <<>>, {<<KeyLink, ValTrue>>}, DescD)}

\* the caller's source and current lists
SourceSlice == 1
CurrentSlice == 2

InitFrame ==
    /\ \E src, cur \in SeqsUpTo(FrameUniverse, MaxArr) : arrays = <<src, cur>>
    /\ frame = NoFrame
    /\ DiffIdle /\ TextIdle /\ IgnoreIdle /\ OptIdle /\ InstallIdle

Diffed == frame.op \in {"Diff", "DiffByType"}
Slices(d) == {d.Additions, d.Removals, d.Common}

\* d := Diff(source, cur), cur being current or source itself
CallDiff ==
    /\ frame.op = "none"
    /\ \E cur \in {CurrentSlice, SourceSlice} :
        LET r == DiffMem(arrays, SourceSlice, cur)
        IN  /\ arrays' = r.arrays
            /\ frame' = [op |-> "Diff", args |-> {SourceSlice, cur}, before |-> arrays,
                         d |-> r.d, text |-> <<>>]
    /\ UNCHANGED <<diffVars, textVars, ignoreVars, optVars, installVars>>

\* d := DiffByType(source, current, ts)
CallDiffByType ==
    /\ frame.op = "none"
    /\ \E ts \in {<<>>, <<TypeBrew>>} :
        LET r == DiffByTypeMem(arrays, SourceSlice, CurrentSlice, ts)
        IN  /\ arrays' = r.arrays
            /\ frame' = [op |-> "DiffByType", args |-> {SourceSlice, CurrentSlice},
                         before |-> arrays, d |-> r.d, text |-> <<>>]
    /\ UNCHANGED <<diffVars, textVars, ignoreVars, optVars, installVars>>

\* d := d.FilterIgnored(K)
CallFilterIgnored ==
    /\ Diffed
    /\ \E K \in KeySets :
        LET r == FilterIgnoredMem(arrays, frame.d, K)
        IN  /\ arrays' = r.arrays
            /\ frame' = [op |-> "FilterIgnored", args |-> Slices(frame.d),
                         before |-> arrays, d |-> r.d, text |-> <<>>]
    /\ UNCHANGED <<diffVars, textVars, ignoreVars, optVars, installVars>>

\* d := d.FilterMachineSpecific(K)
CallFilterMachineSpecific ==
    /\ Diffed
    /\ \E K \in KeySets :
        LET r == FilterMachineSpecificMem(arrays, frame.d, K)
        IN  /\ arrays' = r.arrays
            /\ frame' = [op |-> "FilterMachineSpecific", args |-> Slices(frame.d),
                         before |-> arrays, d |-> r.d, text |-> <<>>]
    /\ UNCHANGED <<diffVars, textVars, ignoreVars, optVars, installVars>>

\* NewWriter(w).Format(), w being source or a list of the DiffResult held
CallFormat ==
    /\ frame.op # "Format"
    /\ \E w \in {SourceSlice, frame.d.Additions, frame.d.Common} :
        LET r == FormatMem(arrays, w)
        IN  /\ arrays' = r.arrays
            /\ frame' = [op |-> "Format", args |-> {w} \cup Slices(frame.d),
                         before |-> arrays, d |-> frame.d, text |-> r.text]
    /\ UNCHANGED <<diffVars, textVars, ignoreVars, optVars, installVars>>

NextFrame ==
    \/ CallDiff
    \/ CallDiffByType
    \/ CallFilterIgnored
    \/ CallFilterMachineSpecific
    \/ CallFormat

SpecFrame == InitFrame /\ [][NextFrame]_vars

(***************************************************************************)
(* Install progress (tui/progress): the Model under the Bubble Tea loop.   *)
(* The runtime calls Init once, runs every command it is given in a        *)
(* goroutine of its own, and hands the messages to Update one at a time.   *)
(***************************************************************************)
InstallUniverse == {NewPackage(TypeBrew, NameA), NewPackage(TypeCask, NameB)}
Keys == {"q", "ctrl+c", "x"}

installNext_FirstPackage(mdl) ==
    IF mdl.current >= Len(mdl.packages) THEN {}
    ELSE {[Package |-> mdl.packages[1], Index |-> mdl.current,
           Total |-> Len(mdl.packages), called |-> FALSE]}

\* installNext: the commands it returns, none for nil
installNext(mdl) ==
    IF mdl.current >= Len(mdl.packages) THEN {}
    ELSE {[Package |-> mdl.packages[mdl.current + 1], Index |-> mdl.current,
           Total |-> Len(mdl.packages), called |-> FALSE]}

InitInstall ==
    /\ \E pkgs \in SeqsUpTo(InstallUniverse, MaxInstall) : model = New(pkgs)
    /\ cmds = {} /\ inbox = {} /\ run = "new"
    /\ handed = <<>> /\ nkeys = 0
    /\ DiffIdle /\ TextIdle /\ IgnoreIdle /\ OptIdle /\ MemIdle

\* Init: tea.Batch(m.spinner.Tick, m.installNext())
ModelInit ==
    /\ run = "new"
    /\ cmds' = installNext(model)
    /\ run' = "running"
    /\ UNCHANGED <<model, inbox, handed, nkeys>>
    /\ UNCHANGED <<diffVars, textVars, ignoreVars, optVars, memVars>>

\* the goroutine of an install command calls m.installFn(pkg)
InstallCalled ==
    \E c \in cmds :
        /\ ~c.called
        /\ handed' = Append(handed, c.Package)
        /\ cmds' = (cmds \ {c}) \cup {[c EXCEPT !.called = TRUE]}
        /\ UNCHANGED <<model, inbox, run, nkeys>>
        /\ UNCHANGED <<diffVars, textVars, ignoreVars, optVars, memVars>>

\* installFn returns, with or without an error, and the InstallMsg is sent
InstallReturns ==
    \E c \in cmds, failure \in BOOLEAN :
        /\ c.called
        /\ cmds' = cmds \ {c}
        /\ inbox' = inbox \cup {[Package |-> c.Package, Index |-> c.Index,
                                 Total |-> c.Total, Error |-> failure]}
        /\ UNCHANGED <<model, run, handed, nkeys>>
        /\ UNCHANGED <<diffVars, textVars, ignoreVars, optVars, memVars>>

\* Update(InstallMsg)
UpdateInstallMsg ==
    \E msg \in inbox :
        /\ run = "running"
        /\ inbox' = inbox \ {msg}
        /\ LET result == [Package |-> msg.Package, Error |-> msg.Error]
               next == [model EXCEPT
                          !.results = Append(@, result),
                          !.failed = IF msg.Error THEN @ + 1 ELSE @,
                          !.installed = IF msg.Error THEN @ ELSE @ + 1,
                          !.current = msg.Index + 1]
           IN  IF next.current >= Len(next.packages)
               THEN /\ model' = [next EXCEPT !.done = TRUE]
                    /\ run' = "quit"
                    /\ UNCHANGED cmds
               ELSE /\ model' = next
                    /\ cmds' = cmds \cup installNext(next)
                    /\ UNCHANGED run
        /\ UNCHANGED <<handed, nkeys>>
        /\ UNCHANGED <<diffVars, textVars, ignoreVars, optVars, memVars>>

\* Update(tea.KeyMsg): "ctrl+c" and "q" return tea.Quit, any other key nothing
UpdateKeyMsg ==
    \E key \in Keys :
        /\ run = "running"
        /\ nkeys < MaxKeys
        /\ nkeys' = nkeys + 1
        /\ run' = IF key \in {"ctrl+c", "q"} THEN "quit" ELSE run
        /\ UNCHANGED <<model, cmds, inbox, handed>>
        /\ UNCHANGED <<diffVars, textVars, ignoreVars, optVars, memVars>>

\* Update(spinner.TickMsg): the spinner moves on and asks for its next tick
UpdateTickMsg ==
    /\ run = "running"
    /\ model' = [model EXCEPT !.spinner = (@ + 1) % SpinnerFrames]
    /\ UNCHANGED <<cmds, inbox, run, handed, nkeys>>
    /\ UNCHANGED <<diffVars, textVars, ignoreVars, optVars, memVars>>

NextInstall ==
    \/ ModelInit
    \/ InstallCalled
    \/ InstallReturns
    \/ UpdateInstallMsg
    \/ UpdateKeyMsg
    \/ UpdateTickMsg

SpecInstall == InitInstall /\ [][NextInstall]_vars

\* the runtime calls Init, starts every command, and handles every message
\* sent to it, the spinner's ticks included; every call of the install
\* function returns
SpecInstallLive ==
    /\ InitInstall /\ [][NextInstall]_vars
    /\ WF_vars(ModelInit)
    /\ WF_vars(InstallCalled)
    /\ WF_vars(InstallReturns)
    /\ WF_vars(UpdateInstallMsg)
    /\ WF_vars(UpdateTickMsg)

Init == InitDiff \/ InitParse \/ InitWrite \/ InitIgnore \/ InitOption \/ InitFrame \/ InitInstall
Next ==
    \/ NextDiff \/ NextParse \/ WriterFormat \/ NextIgnore \/ NextOption \/ NextFrame
    \/ NextInstall
Spec == Init /\ [][Next]_vars

(***************************************************************************)
(* Properties of the diff engine                                           *)
(***************************************************************************)
\* the identity key of a record, as the pair the data model names
IdKey(p) == <<p.Type, p.Name>>
IdKeys(ps) == {IdKey(ps[i]) : i \in DOMAIN ps}
\* the identity key of a record written "category:name"
IdString(p) == TypeStr(p.Type) \o <<":">> \o p.Name

\* C2: in Diff(A, B) no identity key is both in Additions and in Removals,
\* and every identity key of A or B is in exactly one of Additions (keys of
\* A absent from B), Removals (keys of B absent from A) and Common (keys in
\* both).
C2_DiffPartition ==
    ops = <<"Diff">> =>
        LET inA == IdKeys(source)
            inB == IdKeys(current)
            add == IdKeys(diff.Additions)
            rem == IdKeys(diff.Removals)
            com == IdKeys(diff.Common)
        IN  /\ add \cap rem = {}
            /\ add = inA \ inB
            /\ rem = inB \ inA
            /\ com = inA \cap inB
            /\ \A k \in inA \cup inB :
                   Cardinality({S \in {"add", "rem", "com"} :
                       \/ S = "add" /\ k \in add
                       \/ S = "rem" /\ k \in rem
                       \/ S = "com" /\ k \in com}) = 1

C2_Witness ==
    /\ ops = <<"Diff">>
    /\ diff.Additions # <<>> /\ diff.Removals # <<>> /\ diff.Common # <<>>

\* C3: Diff matches records by (category, name) alone: a source record is in
\* Common exactly when current holds a record of the same category and name,
\* whatever their options and descriptions, and is an Addition otherwise; a
\* current record is a Removal exactly when source holds no record of its
\* category and name. Records that share only the name are never matched.
C3_IdentityIsTypeAndName ==
    ops = <<"Diff">> =>
        /\ \A i \in DOMAIN source :
              LET s == source[i]
                  matched == \E j \in DOMAIN current :
                                 current[j].Type = s.Type /\ current[j].Name = s.Name
              IN  /\ (s \in Range(diff.Common)) = matched
                  /\ (s \in Range(diff.Additions)) = ~matched
        /\ \A j \in DOMAIN current :
              LET c == current[j]
                  matched == \E i \in DOMAIN source :
                                 source[i].Type = c.Type /\ source[i].Name = c.Name
              IN  (c \in Range(diff.Removals)) = ~matched

C3_Witness ==
    /\ ops = <<"Diff">>
    /\ Len(source) = 2 /\ Len(current) = 1
    /\ source[1].Name = current[1].Name /\ source[1].Type # current[1].Type
    /\ source[2].Name = current[1].Name /\ source[2].Type = current[1].Type
    /\ source[2] # current[1]
    /\ diff.Additions = <<source[1]>>
    /\ diff.Removals = <<>>
    /\ diff.Common = <<source[2]>>

\* C4 as stated: Diff(B, A).Additions = Diff(A, B).Removals, Diff(B, A).Removals
\* = Diff(A, B).Additions and Diff(B, A).Common is identical to Diff(A, B).Common.
C4_SwapCommonIdentical ==
    ops = <<"Diff", "DiffSwapped">> =>
        /\ diff.Additions = prev.Removals
        /\ diff.Removals = prev.Additions
        /\ diff.Common = prev.Common

\* C4 amended: Diff(B, A).Additions = Diff(A, B).Removals, Diff(B, A).Removals
\* = Diff(A, B).Additions, and the two Common lists hold the same identity keys.
C4_SwapCommonKeys ==
    ops = <<"Diff", "DiffSwapped">> =>
        /\ diff.Additions = prev.Removals
        /\ diff.Removals = prev.Additions
        /\ IdKeys(diff.Common) = IdKeys(prev.Common)

C4_Witness ==
    /\ ops = <<"Diff", "DiffSwapped">>
    /\ diff.Additions # <<>> /\ diff.Removals # <<>>
    /\ diff.Common # <<>> /\ diff.Common # prev.Common

\* C5: Diff(A, A) has no Additions and no Removals, so IsEmpty() is true,
\* and Common holds every record of A.
C5_DiffSelfEmpty ==
    ops = <<"DiffSelf">> =>
        /\ diff.Additions = <<>>
        /\ diff.Removals = <<>>
        /\ IsEmpty(diff)
        /\ Len(diff.Common) = Len(source)

C5_Witness ==
    /\ ops = <<"DiffSelf">>
    /\ Len(source) >= 2 /\ IsEmpty(diff) /\ Len(diff.Common) >= 2

AllOf(d) == Range(d.Additions) \cup Range(d.Removals) \cup Range(d.Common)

\* C6 as stated: every record of DiffByType(source, current, categories) has
\* a category of the given list.
C6_ByTypeOnlyListed ==
    ops = <<"DiffByType">> =>
        \A p \in AllOf(diff) : p.Type \in Range(types)

\* C6 amended: when the given list of categories is not empty, every record
\* of DiffByType(source, current, categories) has a category of the list;
\* with an empty list the result is that of Diff(source, current).
C6_ByTypeOnlyListedNonEmpty ==
    /\ (ops = <<"DiffByType">> /\ types # <<>>) =>
           \A p \in AllOf(diff) : p.Type \in Range(types)
    /\ (ops = <<"DiffByType">> /\ types = <<>>) =>
           /\ diff.Additions = SelectSeq(source, LAMBDA p : IdKey(p) \notin IdKeys(current))
           /\ diff.Removals = SelectSeq(current, LAMBDA p : IdKey(p) \notin IdKeys(source))
           /\ diff.Common = SelectSeq(source, LAMBDA p : IdKey(p) \in IdKeys(current))

C6_Witness ==
    /\ ops = <<"DiffByType">> /\ types # <<>>
    /\ diff.Additions # <<>> /\ diff.Removals # <<>>
    /\ \E i \in DOMAIN source : source[i].Type \notin Range(types)
    /\ \E i \in DOMAIN current : current[i].Type \notin Range(types)

LastOp == ops[Len(ops)]
LastKeys == keys[Len(keys)]
KeptBy(K, p) == IdString(p) \notin K

\* C7: FilterIgnored(d, K) and FilterMachineSpecific(d, K) return Additions
\* and Removals that are exactly the records of d.Additions and d.Removals
\* whose identity key is not in K, in the same order, and Common = d.Common.
C7_FilterExact ==
    (ops # <<>> /\ LastOp \in {"FilterIgnored", "FilterMachineSpecific"}) =>
        /\ diff.Additions = SelectSeq(prev.Additions, LAMBDA p : KeptBy(LastKeys, p))
        /\ diff.Removals = SelectSeq(prev.Removals, LAMBDA p : KeptBy(LastKeys, p))
        /\ diff.Common = prev.Common
        /\ Len(diff.Additions) <= Len(prev.Additions)
        /\ Len(diff.Removals) <= Len(prev.Removals)

C7_Witness ==
    /\ ops = <<"Diff", "FilterIgnored">>
    /\ Len(diff.Additions) < Len(prev.Additions)
    /\ diff.Additions # <<>>
    /\ Len(diff.Removals) < Len(prev.Removals)

\* C8: the filters commute: the result of FilterIgnored(I) followed by
\* FilterMachineSpecific(P) is the result of FilterMachineSpecific(P)
\* followed by FilterIgnored(I), and the other way round.
C8_FiltersCommute ==
    /\ ops = <<"Diff", "FilterIgnored", "FilterMachineSpecific">> =>
           diff = FilterIgnored(FilterMachineSpecific(base, keys[2]), keys[1])
    /\ ops = <<"Diff", "FilterMachineSpecific", "FilterIgnored">> =>
           diff = FilterMachineSpecific(FilterIgnored(base, keys[2]), keys[1])

C8_Witness ==
    /\ ops = <<"Diff", "FilterIgnored", "FilterMachineSpecific">>
    /\ keys[1] # keys[2]
    /\ \E i \in DOMAIN base.Additions :
           IdString(base.Additions[i]) \in keys[1] \cap keys[2]
    /\ \E i \in DOMAIN base.Removals :
           IdString(base.Removals[i]) \in keys[2] \ keys[1]
    /\ diff.Additions # <<>>

(***************************************************************************)
(* Properties of the parser and the writer                                 *)
(***************************************************************************)
\* the lines of a text: what lies between its newlines
RECURSIVE Lines(_)
Lines(text) ==
    IF text = <<>> THEN <<>>
    ELSE <<NextLine(text).text>> \o Lines(NextLine(text).rest)

IsBlankLine(l) == \A i \in DOMAIN l : l[i] \in SpaceChars
IsCommentLine(l) == ~IsBlankLine(l) /\ l[FirstNotIn(l, 1, SpaceChars)] = "#"
IsDeclaration(l) == ~IsBlankLine(l) /\ ~IsCommentLine(l) /\ parseLine(TrimSpace(l)).ok
\* the text of a comment line: what follows its '#', without outer white space
CommentText(l) == TrimSpace(Drop(l, FirstNotIn(l, 1, SpaceChars)))

WithoutDescription(p) == [p EXCEPT !.Description = <<>>]

\* C1: for every non-empty package set X, ParseString(Format(X)) has exactly
\* the identity keys of X, and each parsed record has the options and the
\* description of the record of X with its identity key.
C1_RoundTrip ==
    (pc = "done" /\ wpkgs # <<>>) =>
        /\ IdKeys(packages) = IdKeys(wpkgs)
        /\ \A i \in DOMAIN packages : \A j \in DOMAIN wpkgs :
               IdKey(packages[i]) = IdKey(wpkgs[j]) =>
                   /\ packages[i].Options = wpkgs[j].Options
                   /\ packages[i].Description = wpkgs[j].Description

\* the records appended for the first i delivered lines
RecordsUpTo(i) == Cardinality({j \in 1..i : IsDeclaration(trail[j])})
\* the last delivered line before line i that is not blank, 0 if none
PrevNonBlank(i) ==
    LET before == {j \in 1..(i - 1) : ~IsBlankLine(trail[j])}
    IN  IF before = {} THEN 0 ELSE CHOOSE j \in before : \A k \in before : j >= k
\* the description the comment rule gives the declaration on line i
RuleDescription(i) ==
    IF PrevNonBlank(i) > 0 /\ IsCommentLine(trail[PrevNonBlank(i)])
    THEN CommentText(trail[PrevNonBlank(i)])
    ELSE <<>>

\* C9: every declaration line that parses has as description the text of the
\* most recent comment line when only blank lines lie between the two, and an
\* empty description when the last non-blank line before it is a declaration
\* or a line that fails to parse (or there is none); the pending description
\* is that of a comment no declaration or unparsable line has followed yet.
C9_CommentScanner ==
    err = "none" =>
        /\ Len(packages) = RecordsUpTo(Len(trail))
        /\ \A i \in DOMAIN trail :
               IsDeclaration(trail[i]) =>
                   packages[RecordsUpTo(i)].Description = RuleDescription(i)
        /\ lastComment = RuleDescription(Len(trail) + 1)

C9_Witness ==
    /\ pc = "done" /\ err = "none" /\ Len(trail) = 3
    /\ IsCommentLine(trail[1]) /\ CommentText(trail[1]) # <<>>
    /\ IsBlankLine(trail[2])
    /\ IsDeclaration(trail[3])
    /\ Len(packages) = 1
    /\ packages[1].Description = CommentText(trail[1])
    /\ lastComment = <<>>

\* the records of the lines of a text that match a category pattern, in order
RECURSIVE DeclaredBy(_)
DeclaredBy(lines) ==
    IF lines = <<>> THEN <<>>
    ELSE (IF IsDeclaration(lines[1])
          THEN <<parseLine(TrimSpace(lines[1])).pkg>> ELSE <<>>)
         \o DeclaredBy(Tail(lines))

RECURSIVE MapWithoutDescription(_)
MapWithoutDescription(ps) ==
    IF ps = <<>> THEN <<>>
    ELSE <<WithoutDescription(ps[1])>> \o MapWithoutDescription(Tail(ps))

\* C10: ParseString returns no error for any text, and its records are those
\* of the lines that match a category pattern, one each, in input order, the
\* other lines contributing nothing; ParseFile returns an error only when the
\* file cannot be opened or read.
C10_ParseTotal ==
    /\ (pc = "done" /\ mode = "string") =>
           /\ err = "none"
           /\ MapWithoutDescription(packages) = DeclaredBy(Lines(content))
    /\ (pc = "done" /\ mode = "file" /\ err # "none") =>
           fstate \in {"missing", "failing"}

(***************************************************************************)
(* Properties of the ignore file                                           *)
(***************************************************************************)
\* the number of ':' in an identifier
Colons(id) == Cardinality({i \in DOMAIN id : id[i] = ":"})

\* caller p has returned from a mutator call that met no I/O failure
Returned(p) == calls[p].pc = "done" /\ calls[p].err # "io"

\* caller p has returned and nothing was saved since: ifile is as p left it
ReturnedLast(p) == Returned(p) /\ last.proc = p

\* the IgnoreFile caller p loaded, and the one now on disk
Seen(p) == LoadIgnoreFile(calls[p].was)
OnDisk == LoadIgnoreFile(ifile)

TargetsGlobal(c) == c.global \/ c.machine = ""

\* the list of IgnoreFile f a call addresses: <<>> when f has no such
\* scope, or no field for the category of the identifier
TargetList(f, c) ==
    LET id == parsePackageID(c.arg)
        hasScope == TargetsGlobal(c) \/ HasMachine(f, c.machine)
        scope == IF TargetsGlobal(c) THEN f.Global ELSE MachineScope(f, c.machine)
    IN  IF ~hasScope THEN <<>>
        ELSE IF c.op \in CategoryOps THEN scope.Categories
        ELSE IF id.err = "none" /\ IsField(id.pkgType) THEN scope.Packages[Field(id.pkgType)]
        ELSE <<>>

\* the entry of its list a call names
EntryOf(c) == IF c.op \in CategoryOps THEN c.arg ELSE parsePackageID(c.arg).pkgName

Count(list, e) == Cardinality({i \in DOMAIN list : list[i] = e})

\* how often the entry a call names is in the list the call addresses
Entries(f, c) == Count(TargetList(f, c), EntryOf(c))

\* the call names a category, or an identifier that has a separator
WellFormed(c) == c.op \in CategoryOps \/ parsePackageID(c.arg).err = "none"

\* the call addresses a list the ignore file has
HasList(c) == c.op \in CategoryOps \/ IsField(parsePackageID(c.arg).pkgType)

\* C11 as stated: AddPackageIgnore and RemovePackageIgnore return the
\* 'invalid package ID format' error exactly when the identifier does not
\* contain exactly one ':'.
C11_ExactlyOneSeparator ==
    \A p \in Procs :
        (Returned(p) /\ calls[p].call.op \in PackageOps) =>
            (calls[p].err = "invalid package ID format" <=> Colons(calls[p].call.arg) # 1)

\* C11 as amended: AddPackageIgnore and RemovePackageIgnore return the
\* 'invalid package ID format' error exactly when the identifier contains no
\* ':'; an identifier with more than one is accepted and split at the first,
\* the later ones belonging to the name.
C11_AtLeastOneSeparator ==
    \A p \in Procs :
        (Returned(p) /\ calls[p].call.op \in PackageOps) =>
            /\ calls[p].err = "invalid package ID format" <=> Colons(calls[p].call.arg) = 0
            /\ (ReturnedLast(p) /\ calls[p].call = Call("AddPackageIgnore", "", IdTwoColons, TRUE)) =>
                   contains(OnDisk.Global.Packages[TypeCask], NameA \o <<":">> \o NameB)

\* one caller had an identifier with two ':' accepted, the other had one
\* without ':' rejected
C11_Witness ==
    \E p, q \in Procs :
        /\ ReturnedLast(p) /\ calls[p].call.op = "AddPackageIgnore"
        /\ Colons(calls[p].call.arg) = 2 /\ calls[p].err = "none"
        /\ Returned(q) /\ calls[q].call.op = "RemovePackageIgnore"
        /\ Colons(calls[q].call.arg) = 0 /\ calls[q].err = "invalid package ID format"

\* C12: AddCategoryIgnore or AddPackageIgnore called again with the arguments
\* of the call that has just succeeded returns no error and leaves the file
\* as that call left it, the entry being once in the list the call addresses.
C12_AddIdempotent ==
    \A p \in Procs :
        (ReturnedLast(p) /\ calls[p].again
         /\ calls[p].call.op \in {"AddCategoryIgnore", "AddPackageIgnore"}) =>
            /\ calls[p].err = "none"
            /\ ifile = calls[p].was
            /\ HasList(calls[p].call) => Entries(OnDisk, calls[p].call) = 1

\* AddPackageIgnore("", "cask:a", true) has returned for the second time
C12_Witness ==
    \E p \in Procs :
        /\ ReturnedLast(p) /\ calls[p].again /\ calls[p].err = "none"
        /\ calls[p].call = Call("AddPackageIgnore", "", IdCaskA, TRUE)
        /\ Entries(OnDisk, calls[p].call) = 1

\* C13: RemoveCategoryIgnore or RemovePackageIgnore for an entry that the
\* addressed scope does not list (the machine may have no scope at all)
\* returns no error and leaves every list of the file as it was; for an entry
\* that is listed, the entry is no longer in that list afterwards.
C13_RemoveAbsentOrPresent ==
    \A p \in Procs :
        (ReturnedLast(p) /\ WellFormed(calls[p].call)
         /\ calls[p].call.op \in {"RemoveCategoryIgnore", "RemovePackageIgnore"}) =>
            /\ calls[p].err = "none"
            /\ Entries(Seen(p), calls[p].call) = 0 => OnDisk = Seen(p)
            /\ Entries(OnDisk, calls[p].call) = 0

\* a remove call for a machine that has no scope in the file has returned
C13_Witness ==
    \E p \in Procs :
        /\ ReturnedLast(p) /\ calls[p].err = "none"
        /\ calls[p].call.op \in {"RemoveCategoryIgnore", "RemovePackageIgnore"}
        /\ ~TargetsGlobal(calls[p].call)
        /\ ~HasMachine(Seen(p), calls[p].call.machine)
        /\ ifile.exists /\ ~calls[p].was.exists

\* C14: when the mutator call that returned last is a successful
\* AddCategoryIgnore("", c, true), IsCategoryIgnored(m, c) on the Config that
\* config.Get returns, its ignore file loaded, is true for every machine m.
C14_GlobalCategoryForEveryMachine ==
    (/\ answer.op = "IsCategoryIgnored"
     /\ ~cfg.ignoreFile.nil
     /\ answer.prior.err = "none"
     /\ answer.prior.call = Call("AddCategoryIgnore", "", answer.arg, TRUE)) =>
        answer.result = TRUE

\* n is listed under category c in Global.packages or in the packages of the
\* scope of the machine, "c:n" being the identifier
Listed(f, machine, pkgID) ==
    LET id == parsePackageID(pkgID)
    IN  /\ id.err = "none" /\ IsField(id.pkgType)
        /\ \/ contains(f.Global.Packages[Field(id.pkgType)], id.pkgName)
           \/ /\ HasMachine(f, machine)
              /\ contains(MachineScope(f, machine).Packages[Field(id.pkgType)], id.pkgName)

\* C15: IsPackageIgnored(machine, "c:n") is true exactly when n is listed
\* under c in Global.packages or Machines[machine].packages of the ignore
\* file the Config holds, whatever categories are ignored and whatever the
\* scopes of other machines list.
C15_PackageIgnoredExactly ==
    answer.op = "IsPackageIgnored" =>
        answer.result = (/\ ~cfg.ignoreFile.nil
                         /\ Listed(cfg.ignoreFile.val, answer.machine, answer.arg))

\* air asked about cask:a, which only mini lists, with cask ignored globally
C15_Witness ==
    /\ answer.op = "IsPackageIgnored" /\ answer.machine = "air" /\ answer.arg = IdCaskA
    /\ answer.result = FALSE
    /\ IsCategoryIgnored(cfg, "air", CategoryCask)
    /\ Listed(cfg.ignoreFile.val, "mini", IdCaskA)

\* both callers loaded before either saved, both have saved, p last
BothLoadedFirst(p, q) ==
    /\ p # q
    /\ calls[p].pc = "done" /\ calls[p].err = "none" /\ calls[p].overlap
    /\ calls[q].pc = "done" /\ calls[q].err = "none" /\ calls[q].overlap
    /\ last.proc = p

\* the two calls name different entries or address different lists
OtherEntry(c, d) ==
    \/ TargetsGlobal(c) # TargetsGlobal(d)
    \/ ~TargetsGlobal(c) /\ c.machine # d.machine
    \/ (c.op \in CategoryOps) # (d.op \in CategoryOps)
    \/ c.arg # d.arg

\* C16: when two mutator calls both load before either saves, the file after
\* both is the one the last saver made from what it loaded, and whether the
\* entry of the other call is listed is as in what the last saver loaded;
\* a caller holding a copy can always save, and a second caller can always
\* enter while the first holds a copy.
C16_LastWriterWins ==
    /\ \A p, q \in Procs :
          BothLoadedFirst(p, q) =>
              /\ ifile = SaveIgnoreFile(Modify(Seen(p), calls[p].call).file)
              /\ OtherEntry(calls[p].call, calls[q].call) =>
                     Entries(OnDisk, calls[q].call) = Entries(Seen(p), calls[q].call)
    /\ \A p \in Procs : calls[p].pc = "loaded" => ENABLED Save(p)
    /\ \A c \in CallUniverse :
          (calls[1].pc = "loaded" /\ calls[2].pc # "loaded" /\ ncalls < MaxCalls) =>
              ENABLED Begin(2, c)

\* the entry the first saver added is not in the file the last saver left
C16_Witness ==
    \E p, q \in Procs :
        /\ BothLoadedFirst(p, q)
        /\ OtherEntry(calls[p].call, calls[q].call)
        /\ Entries(calls[q].mem, calls[q].call) = 1
        /\ Entries(OnDisk, calls[q].call) = 0
        /\ Entries(OnDisk, calls[p].call) = 1

(***************************************************************************)
(* Properties of the writer                                                *)
(***************************************************************************)
\* the lines of a text that declare a package, in order
RECURSIVE Declarations(_)
Declarations(lines) ==
    IF lines = <<>> THEN <<>>
    ELSE (IF IsDeclaration(lines[1]) THEN <<lines[1]>> ELSE <<>>)
         \o Declarations(Tail(lines))

\* the order of the categories: tap, brew, cask, mas, vscode, cursor, antigravity, go
CategoryRank(t) ==
    CASE t = TypeTap -> 1 [] t = TypeBrew -> 2 [] t = TypeCask -> 3 [] t = TypeMas -> 4
      [] t = TypeVSCode -> 5 [] t = TypeCursor -> 6 [] t = TypeAntigravity -> 7
      [] t = TypeGo -> 8

\* o lists the records of ps category by category, names ascending in each
ByCategoryThenName(ps, o) ==
    \A i, j \in DOMAIN ps :
        i < j => \/ CategoryRank(ps[o[i]].Type) < CategoryRank(ps[o[j]].Type)
                 \/ /\ ps[o[i]].Type = ps[o[j]].Type
                    /\ ~StrLess(ps[o[j]].Name, ps[o[i]].Name)

\* the declarations of text are those of the records of ps, one each, in an
\* order that goes category by category and by ascending name
GroupedAndSorted(ps, text) ==
    \E o \in Permutations(DOMAIN ps) :
        /\ ByCategoryThenName(ps, o)
        /\ Declarations(Lines(text)) = [i \in DOMAIN ps |-> formatPackage(ps[o[i]])]

Reordered(ps, o) == [i \in DOMAIN ps |-> ps[o[i]]]

\* Format has just returned content for the packages of the Writer
Formatted == pc = "scan" /\ rest = content /\ wpkgs # <<>>

\* C17: the declarations Format writes go category by category in the order
\* tap, brew, cask, mas, vscode, cursor, antigravity, go, by ascending name
\* within a category (also when a record occurs twice), and for packages
\* without duplicate identity keys every input order gives the same text.
C17_GroupedSortedAnyOrder ==
    Formatted =>
        /\ GroupedAndSorted(wpkgs, content)
        /\ GroupedAndSorted(wpkgs \o <<wpkgs[1]>>, Format(wpkgs \o <<wpkgs[1]>>))
        /\ NoDuplicateKeys(wpkgs) =>
               \A o \in Permutations(DOMAIN wpkgs) : Format(Reordered(wpkgs, o)) = content

\* two records of one category were given with the greater name first
C17_Witness ==
    /\ Formatted /\ Len(wpkgs) = 2
    /\ wpkgs[1].Type = wpkgs[2].Type
    /\ StrLess(wpkgs[2].Name, wpkgs[1].Name)
    /\ Declarations(Lines(content)) = <<formatPackage(wpkgs[2]), formatPackage(wpkgs[1])>>

(***************************************************************************)
(* Properties of Package.WithOption and formatOptions                      *)
(***************************************************************************)
\* C18: after ret := recv.WithOption(key, value), ret has the option set and
\* the options of recv are those it had before the call, whether or not recv
\* had options.
C18_WithOptionKeepsReceiver ==
    opc = "called" =>
        /\ <<held.key, held.value>> \in OptionsOf(heap, ret)
        /\ OptionsOf(heap, recv) = held.opts

\* the <<key, value>> pairs of opts in ascending order of key
RECURSIVE ByKey(_)
ByKey(opts) ==
    IF opts = {} THEN <<>>
    ELSE LET m == CHOOSE pr \in opts : \A other \in opts \ {pr} : StrLess(pr[1], other[1])
         IN  <<m>> \o ByKey(opts \ {m})

\* C19: formatOptions writes the 'key: value' items of the options in
\* ascending order of key, separated by ', ', for every set of keys.
C19_OptionsInKeyOrder ==
    opc = "formatted" =>
        LET pairs == ByKey(OptionsOf(heap, ret))
        IN  out = Join([i \in DOMAIN pairs |-> formatOption(pairs[i][1], pairs[i][2])],
                       <<",", " ">>)

\* a numeric literal: digits only, optionally signed
NumericLiteral(v) ==
    LET d == IF v # <<>> /\ v[1] \in {"+", "-"} THEN Tail(v) ELSE v
    IN  d # <<>> /\ \A i \in DOMAIN d : d[i] \in Digits

\* the item of an option under the documented quoting rule
ItemAsClaimed(pr) ==
    IF \/ pr[2] \in {<<"t", "r", "u", "e">>, <<"f", "a", "l", "s", "e">>}
       \/ NumericLiteral(pr[2])
       \/ HasPrefix(pr[2], <<":">>)
    THEN pr[1] \o <<":", " ">> \o pr[2]
    ELSE pr[1] \o <<":", " ", "\"">> \o pr[2] \o <<"\"">>

\* the orders in which the members of a set can be listed
Orderings(S) == {o \in [1..Cardinality(S) -> S] : Range(o) = S}

\* C20: formatOptions writes the value of an option without quotes exactly
\* when it is true or false, a numeric literal (digits only, optionally
\* signed) or begins with ':', and inside double quotes otherwise.
C20_QuotedUnlessLiteral ==
    opc = "formatted" =>
        \E o \in Orderings(OptionsOf(heap, ret)) :
            out = Join([i \in DOMAIN o |-> ItemAsClaimed(o[i])], <<",", " ">>)

(***************************************************************************)
(* Properties of parsed package sets                                       *)
(***************************************************************************)
ParseReturned == pc = "done" /\ err = "none" /\ wpkgs = <<>>

\* C21: the packages a parse returns hold at most one record per identity
\* key, and a Diff over them lists no identity key twice in Additions,
\* Removals or Common.
C21_ParsedOneRecordPerKey ==
    ParseReturned =>
        /\ NoDuplicateKeys(packages)
        /\ NoDuplicateKeys(Diff(packages, <<>>).Additions)
        /\ NoDuplicateKeys(Diff(<<>>, packages).Removals)
        /\ NoDuplicateKeys(Diff(packages, packages).Common)

(***************************************************************************)
(* Properties of Diff: the copy kept, and the inputs left alone            *)
(***************************************************************************)
\* the records of ps under key k, in their order in ps
RECURSIVE WithKey(_, _)
WithKey(ps, k) ==
    IF ps = <<>> THEN <<>>
    ELSE IF packageKey(Head(ps)) = k THEN <<Head(ps)>> \o WithKey(Tail(ps), k)
    ELSE WithKey(Tail(ps), k)

\* C22: for every identity key present in both source and current, the
\* records of Diff(source, current).Common under that key are the source's
\* records under it, with the source's options, description and FullName,
\* and no record that only current holds.
C22_CommonIsSourceCopy ==
    (ops # <<>> /\ ops[1] = "Diff") =>
        \A k \in MapKeys(source) \cap MapKeys(current) :
            /\ WithKey(base.Common, k) = WithKey(source, k)
            /\ \A i \in DOMAIN base.Common :
                   base.Common[i] \in Range(current) => base.Common[i] \in Range(source)

C22_Witness ==
    /\ ops = <<"Diff">>
    /\ \E i \in DOMAIN source, j \in DOMAIN current :
        /\ packageKey(source[i]) = packageKey(current[j])
        /\ source[i].Options # current[j].Options
        /\ source[i].Description # current[j].Description
        /\ diff.Common = <<source[i]>>

\* the list a slice referred to before the last call, and refers to now
Before(s) == Deref(frame.before, s)
Now(s) == Deref(arrays, s)

\* C23: after Diff, DiffByType, FilterIgnored, FilterMachineSpecific or
\* Writer.Format, the source and current lists, the lists of the receiver
\* DiffResult and the Writer's package list hold the same records in the
\* same order as before the call.
C23_InputsUnchanged ==
    frame.op # "none" =>
        /\ \A s \in frame.args \cup {SourceSlice, CurrentSlice} : Now(s) = Before(s)
        /\ \A s \in DOMAIN frame.before : arrays[s] = frame.before[s]

\* Format was given the Common list of the DiffResult held, which is not in
\* name order, and sorted a backing array of its own
C23_Witness ==
    /\ frame.op = "Format"
    /\ \E s \in frame.args :
        /\ s = frame.d.Common
        /\ \E a \in DOMAIN arrays \ DOMAIN frame.before :
               arrays[a] = sortByName(Now(s)) /\ arrays[a] # Now(s)
        /\ Len(Now(s)) = 2
        /\ StrLess(Now(s)[2].Name, Now(s)[1].Name)
        /\ Declarations(Lines(frame.text)) = <<formatPackage(Now(s)[2]), formatPackage(Now(s)[1])>>

(***************************************************************************)
(* Properties of the ignore file: what a call persists, and where          *)
(***************************************************************************)
\* caller p has returned from a call that succeeded and was the last to save
Succeeded(p) == ReturnedLast(p) /\ calls[p].err = "none"

\* C24: whenever AddPackageIgnore(machine, "category:name", global) returns
\* without error, the persisted file lists name under that category in the
\* scope the call addresses, for every category the identifier check passes.
C24_AddedPackageIsListed ==
    \A p \in Procs :
        (Succeeded(p) /\ calls[p].call.op = "AddPackageIgnore") =>
            Entries(OnDisk, calls[p].call) >= 1

\* C25: when AddPackageIgnore or RemovePackageIgnore returns the
\* invalid-identifier error, the persisted file is as it was when the call
\* was made: not rewritten, and not created when it did not exist.
C25_InvalidIdLeavesFile ==
    \A p \in Procs :
        (ReturnedLast(p) /\ calls[p].err = "invalid package ID format") =>
            /\ calls[p].call.op \in PackageOps
            /\ ifile = calls[p].was

\* the invalid-identifier error was returned while no ignore file existed
C25_Witness ==
    \E p \in Procs :
        /\ ReturnedLast(p) /\ calls[p].err = "invalid package ID format"
        /\ calls[p].call.arg = IdNoColon
        /\ ~calls[p].was.exists /\ ~ifile.exists

NoDuplicates(list) == \A i, j \in DOMAIN list : i # j => list[i] # list[j]
ScopeDuplicateFree(scope) ==
    /\ NoDuplicates(scope.Categories)
    /\ \A t \in DOMAIN scope.Packages : NoDuplicates(scope.Packages[t])
DuplicateFree(f) ==
    /\ ScopeDuplicateFree(f.Global)
    /\ \A pr \in f.Machines : ScopeDuplicateFree(pr[2])

\* C26: starting from a missing or duplicate-free ignore file, after any
\* sequence of the four mutators under any interleaving of their load and
\* save steps, no category list and no package list of any scope of the
\* persisted file holds an entry twice.
C26_NoDuplicateEntries == DuplicateFree(OnDisk)

\* two overlapping calls added the same package and both saved
C26_Witness ==
    /\ Succeeded(1) /\ Returned(2) /\ calls[2].err = "none"
    /\ calls[1].overlap
    /\ calls[1].call = Call("AddPackageIgnore", "", IdCaskA, TRUE)
    /\ calls[2].call = calls[1].call
    /\ Entries(OnDisk, calls[1].call) = 1

OtherMachines(f, machine) == {pr \in f.Machines : pr[1] # machine}

\* C27: a call with global = true or an empty machine id changes only the
\* Global scope and leaves Machines as it was, even when a machine id is
\* given too; a call with global = false and a machine id changes only the
\* scope of that machine and leaves Global and every other machine's scope
\* as they were.
C27_ScopeFraming ==
    \A p \in Procs :
        Succeeded(p) =>
            IF TargetsGlobal(calls[p].call)
            THEN OnDisk.Machines = Seen(p).Machines
            ELSE /\ OnDisk.Global = Seen(p).Global
                 /\ OtherMachines(OnDisk, calls[p].call.machine)
                      = OtherMachines(Seen(p), calls[p].call.machine)

\* a global call that named machine mini changed Global beside the scope of
\* mini, and a call for machine air was made beside the scope of mini
C27_Witness ==
    \E p, q \in Procs :
        /\ Succeeded(p)
        /\ calls[p].call = Call("AddCategoryIgnore", "mini", CategoryCask, TRUE)
        /\ HasMachine(Seen(p), "mini")
        /\ OnDisk.Global # Seen(p).Global
        /\ Returned(q) /\ calls[q].err = "none"
        /\ calls[q].call = Call("AddPackageIgnore", "air", IdCaskA, FALSE)
        /\ HasMachine(Seen(q), "mini")

(***************************************************************************)
(* ParseFile against ParseString                                           *)
(***************************************************************************)
\* the loop of ParseString over the lines the scanner delivers
RECURSIVE ScanLines(_, _)
ScanLines(lines, pending) ==
    IF lines = <<>> THEN <<>>
    ELSE LET line == TrimSpace(lines[1])
         IN  IF line = <<>> THEN ScanLines(Tail(lines), pending)
             ELSE IF HasPrefix(line, <<"#">>)
                  THEN ScanLines(Tail(lines), TrimSpace(TrimPrefix(line, <<"#">>)))
             ELSE IF ~parseLine(line).ok THEN ScanLines(Tail(lines), <<>>)
             ELSE <<IF pending # <<>>
                    THEN [parseLine(line).pkg EXCEPT !.Description = pending]
                    ELSE parseLine(line).pkg>>
                  \o ScanLines(Tail(lines), <<>>)

\* ParseString on a text whose lines all fit the scanner's buffer
ParseString(text) == ScanLines(Lines(text), <<>>)

\* every line of the text can be read: none is too long for the scanner
Readable(text) == \A i \in DOMAIN text : text[i] # XRun

\* C28: for every text whose lines are all readable, ParseFile on a file
\* holding the text returns without error the records ParseString returns
\* for the text, with the same options and descriptions in the same order.
C28_ParseFileAsParseString ==
    (pc = "done" /\ wpkgs = <<>> /\ Readable(content)
     /\ (mode = "file" => fstate = "ok")) =>
        /\ err = "none"
        /\ packages = ParseString(content)

\* ParseFile has returned a record that has an option and one that has a
\* description
C28_Witness ==
    /\ pc = "done" /\ mode = "file" /\ err = "none"
    /\ Len(packages) = 2
    /\ packages = ParseString(content)
    /\ \E i, j \in DOMAIN packages :
           packages[i].Options # NoOptions /\ packages[j].Description # <<>>

(***************************************************************************)
(* Properties of the install progress Model                                *)
(***************************************************************************)
\* the install commands whose call of installFn has not returned
Installing == {c \in cmds : c.called}

\* C29: the packages are handed to the install function one at a time, in
\* list order, each position at most once; once an InstallMsg was handled,
\* installed + failed = len(results) = current, and done is set exactly when
\* current has reached the number of packages.
C29_InstallProgress ==
    /\ handed = Take(model.packages, Len(handed))
    /\ Cardinality(cmds) + Cardinality(inbox) <= 1
    /\ Cardinality(Installing) <= 1
    /\ model.results # <<>> =>
           /\ model.installed + model.failed = Len(model.results)
           /\ Len(model.results) = model.current
           /\ model.done <=> model.current = Len(model.packages)
    /\ model.done => model.results # <<>>

\* two packages went through, one installed and one failed, and the second
\* InstallMsg set done
C29_Witness ==
    /\ Len(model.packages) = 2 /\ model.packages[1] # model.packages[2]
    /\ handed = model.packages
    /\ model.installed = 1 /\ model.failed = 1
    /\ model.current = 2 /\ model.done /\ run = "quit"

\* C30: for every package list, the empty one included, the Model started
\* by Init reaches Done() = true and returns tea.Quit without any key being
\* pressed, provided every call of the install function returns.
C30_ReachesDone == <>(nkeys > 0 \/ (model.done /\ run = "quit"))

====
